---- MODULE Spec2Model ----
(***************************************************************************)
(* Sahod Planner (envelope budgeting engine) and the recurring             *)
(* transaction poster of kaibigan-api, as state machines over the rows of  *)
(* the relational store.                                                   *)
(*                                                                         *)
(* A calendar date is the integer yyyymmdd (2023-02-28 is 20230228), so    *)
(* that integer order is date order, as it is for the ISO strings the      *)
(* code sends to the store.  Null is 0 wherever a column is nullable.      *)
(***************************************************************************)
EXTENDS Integers, Sequences, FiniteSets, TLC

VARIABLES
    today,                      \* datetime.date.today()
    pay_cycle,                  \* the user's active row of sahod_pay_cycles
    period,                     \* last value returned by get_period_for_date
    periods_seen,               \* history: every value get_period_for_date returned
    sahod_pay_cycle_instances,  \* rows of sahod_pay_cycle_instances
    next_instance_id,           \* id the store gives the next instance row
    sahod_envelopes,            \* envelope id -> row of sahod_envelopes
    sahod_allocations,          \* rows of sahod_allocations
    next_allocation_id,         \* id the store gives the next allocation row
    kaban_transactions,         \* rows of kaban_transactions (the ledger)
    next_tx_id,                 \* id the store gives the next ledger row
    recurring_rules,            \* rule id -> row of recurring_rules
    workers,                    \* the reconciliations in flight, one per request
    response                    \* what the last handler returned

calcVars == <<period, periods_seen>>

cycleVars == <<pay_cycle, sahod_pay_cycle_instances, next_instance_id>>

budgetVars == <<sahod_envelopes, sahod_allocations, next_allocation_id>>

ledgerVars == <<kaban_transactions, next_tx_id>>

recurVars == <<recurring_rules, workers>>

vars == <<today, calcVars, cycleVars, budgetVars, ledgerVars, recurVars, response>>

Null == 0

Min(a, b) == IF a <= b THEN a ELSE b

(***************************************************************************)
(* datetime.date                                                           *)
(***************************************************************************)
Year(d) == d \div 10000

Month(d) == (d \div 100) % 100

Day(d) == d % 100

MkDate(y, m, d) == y * 10000 + m * 100 + d

IsLeap(y) == (y % 4 = 0 /\ y % 100 # 0) \/ y % 400 = 0

DaysInMonth(y, m) ==
    IF m = 2 THEN (IF IsLeap(y) THEN 29 ELSE 28)
    ELSE IF m \in {4, 6, 9, 11} THEN 30 ELSE 31

\* date + timedelta(days=1)
NextDay(d) ==
    IF Day(d) < DaysInMonth(Year(d), Month(d)) THEN d + 1
    ELSE IF Month(d) < 12 THEN MkDate(Year(d), Month(d) + 1, 1)
    ELSE MkDate(Year(d) + 1, 1, 1)

\* date - timedelta(days=1)
PrevDay(d) ==
    IF Day(d) > 1 THEN d - 1
    ELSE IF Month(d) > 1
         THEN MkDate(Year(d), Month(d) - 1, DaysInMonth(Year(d), Month(d) - 1))
    ELSE MkDate(Year(d) - 1, 12, 31)

\* date + timedelta(days=n), n of either sign
RECURSIVE AddDays(_, _)
AddDays(d, n) ==
    IF n = 0 THEN d
    ELSE IF n > 0 THEN AddDays(NextDay(d), n - 1)
    ELSE AddDays(PrevDay(d), n + 1)

\* date.replace(day=x); Python raises ValueError for a day the month lacks,
\* which is Null here.
Replace(d, x) ==
    IF d # Null /\ x \in 1..DaysInMonth(Year(d), Month(d))
    THEN MkDate(Year(d), Month(d), x)
    ELSE Null

\* date + relativedelta(months=k): the day is clamped to the target month
AddMonths(d, k) ==
    LET t == Year(d) * 12 + (Month(d) - 1) + k
        y == t \div 12
        m == (t % 12) + 1
    IN  MkDate(y, m, Min(Day(d), DaysInMonth(y, m)))

\* _last_day_of_month(date): day 28 plus four days lands in the next month;
\* stepping back by that date's day number gives the month's last day.
last_day_of_month(date) ==
    LET next_month == AddDays(Replace(date, 28), 4)
    IN  Day(AddDays(next_month, 0 - Day(next_month)))

(***************************************************************************)
(* Period Calculator                                                       *)
(***************************************************************************)
UnsupportedSchedule == [error |-> "unsupported"]

MkPeriod(ps, pe, pay, type) ==
    IF ps = Null \/ pe = Null
    THEN [error |-> "ValueError"]
    ELSE [period_start |-> ps, period_end |-> pe,
          expected_pay_date |-> pay, payday_type |-> type]

\* target_date.replace(day=pay_day): the replacement without the clamp
UnclampedReplace(date, pay_day) == Replace(date, pay_day)

\* target_date.replace(day=min(pay_day, _last_day_of_month(target_date)))
ClampedReplace(date, pay_day) == Replace(date, Min(pay_day, last_day_of_month(date)))

\* Replace of Null stays Null (the ValueError propagates)
PrevOrNull(d) == IF d = Null THEN Null ELSE PrevDay(d)

\* the test that picks the monthly branch
MonthlyInCurrent(pay_day_1, target_date) == Day(target_date) >= pay_day_1

\* Comparing or taking min() of an int with None raises TypeError.
TypeError == [error |-> "TypeError"]

get_period_for_date(frequency, pay_day_1, pay_day_2, target_date) ==
    IF frequency = "monthly" THEN
        IF pay_day_1 = Null THEN TypeError
        ELSE IF MonthlyInCurrent(pay_day_1, target_date)
        THEN LET period_start == ClampedReplace(target_date, pay_day_1)
                 next_month == AddMonths(target_date, 1)
                 period_end == PrevOrNull(ClampedReplace(next_month, pay_day_1))
             IN  MkPeriod(period_start, period_end, period_start, "single")
        ELSE LET prev_month == AddMonths(target_date, -1)
                 period_start == ClampedReplace(prev_month, pay_day_1)
                 period_end == PrevOrNull(ClampedReplace(target_date, pay_day_1))
             IN  MkPeriod(period_start, period_end, period_start, "single")
    ELSE IF frequency = "bimonthly" THEN
        LET day1 == Min(pay_day_1, last_day_of_month(target_date))
            day2 == Min(pay_day_2, last_day_of_month(target_date))
        IN  IF pay_day_1 = Null \/ pay_day_2 = Null THEN TypeError
            ELSE IF Day(target_date) >= day2
            THEN LET period_start == Replace(target_date, day2)
                     next_month == AddMonths(target_date, 1)
                     period_end == PrevOrNull(ClampedReplace(next_month, pay_day_1))
                 IN  MkPeriod(period_start, period_end, period_start, "katapusan")
            ELSE IF Day(target_date) >= day1
            THEN LET period_start == Replace(target_date, day1)
                     period_end == PrevOrNull(Replace(target_date, day2))
                 IN  MkPeriod(period_start, period_end, period_start, "kinsenas")
            ELSE LET prev_month == AddMonths(target_date, -1)
                     day2_prev == Min(pay_day_2, last_day_of_month(prev_month))
                     period_start == Replace(prev_month, day2_prev)
                     period_end == PrevOrNull(Replace(target_date, day1))
                 IN  MkPeriod(period_start, period_end, period_start, "katapusan")
    ELSE UnsupportedSchedule

IsPeriod(p) == "period_start" \in DOMAIN p

(***************************************************************************)
(* SpecPeriod: the Period Calculator applied to every date of a year, for  *)
(* every schedule create_pay_cycle accepts with pay days in 1..31.         *)
(***************************************************************************)
Years == {2023, 2024}

PayDayRange == 1..31

NoPeriod == [none |-> TRUE]

MonthlySchedules ==
    {[frequency |-> "monthly", pay_day_1 |-> d, pay_day_2 |-> Null] : d \in PayDayRange}

BimonthlySchedules ==
    {[frequency |-> "bimonthly", pay_day_1 |-> s[1], pay_day_2 |-> s[2]] :
        s \in {t \in PayDayRange \X PayDayRange : t[1] < t[2]}}

NoCycle == [frequency |-> "none"]

NoResponse == [op |-> "none"]

NumWorkers == 2

\* the requests that may be reconciling at the same time
Workers == 1..NumWorkers

\* a request that is not reconciling
Idle == [pc |-> "idle", todo |-> <<>>, rules |-> <<>>]

\* the store before the user has set anything up
EmptyStore ==
    /\ sahod_pay_cycle_instances = {}
    /\ next_instance_id = 1
    /\ sahod_envelopes = <<>>
    /\ sahod_allocations = {}
    /\ next_allocation_id = 1
    /\ kaban_transactions = {}
    /\ next_tx_id = 1
    /\ recurring_rules = <<>>
    /\ workers = [w \in Workers |-> Idle]
    /\ response = NoResponse

InitPeriod ==
    /\ pay_cycle \in MonthlySchedules \cup BimonthlySchedules
    /\ today \in {MkDate(y, 1, 1) : y \in Years}
    /\ period = NoPeriod
    /\ periods_seen = {}
    /\ EmptyStore

EvalPeriod(date) ==
    get_period_for_date(pay_cycle.frequency, pay_cycle.pay_day_1,
                        pay_cycle.pay_day_2, date)

\* the first evaluation of get_period_for_date, for January 1st
ComputePeriod ==
    /\ period = NoPeriod
    /\ period' = EvalPeriod(today)
    /\ periods_seen' = periods_seen \cup {period'}
    /\ UNCHANGED <<today, cycleVars, recurVars, budgetVars, ledgerVars, response>>

\* the next call: get_period_for_date for the following day of the same year
NextDate ==
    /\ period # NoPeriod
    /\ Year(NextDay(today)) = Year(today)
    /\ today' = NextDay(today)
    /\ period' = EvalPeriod(today')
    /\ periods_seen' = periods_seen \cup {period'}
    /\ UNCHANGED <<cycleVars, recurVars, budgetVars, ledgerVars, response>>

NextPeriod == ComputePeriod \/ NextDate

SpecPeriod == InitPeriod /\ [][NextPeriod]_vars

(***************************************************************************)
(* Rollover Processor                                                      *)
(***************************************************************************)
\* remaining = (allocated + rollover) - spent
Remaining(a) == (a.allocated_amount + a.rollover_amount) - a.cached_spent

AllocationsOf(allocs, instance_id) ==
    {a \in allocs : a.pay_cycle_instance_id = instance_id /\ a.envelope_id \in DOMAIN sahod_envelopes}

\* a helper that never looks at the flag
FlagIgnored(insts, instance_id) == FALSE

\* the check at the head of process_completed_period_rollover
AlreadyProcessed(insts, instance_id) ==
    \E i \in insts : i.id = instance_id /\ i.rollover_processed

\* a loop that adds every remainder, whatever its sign
JarAnyRemainder(envs, rows, e) ==
    LET mine == {a \in rows : a.envelope_id = e}
    IN  IF ~envs[e].is_rollover \/ mine = {}
        THEN envs[e].cookie_jar
        ELSE LET last == CHOOSE a \in mine : \A b \in mine : b.id <= a.id
             IN  envs[e].cookie_jar + Remaining(last)

\* The cookie_jar the loop leaves on envelope e.  Every row carries the
\* envelope as joined when the allocations were read, so each write is that
\* snapshot plus the row's remainder, and the last write for e stands.
RolledJar(envs, rows, e) ==
    LET positive == {a \in rows : a.envelope_id = e /\ Remaining(a) > 0}
    IN  IF ~envs[e].is_rollover \/ positive = {}
        THEN envs[e].cookie_jar
        ELSE LET last == CHOOSE a \in positive : \A b \in positive : b.id <= a.id
             IN  envs[e].cookie_jar + Remaining(last)

MarkProcessed(insts, instance_id) ==
    {IF i.id = instance_id THEN [i EXCEPT !.rollover_processed = TRUE] ELSE i : i \in insts}

\* the store after process_completed_period_rollover(user_id, completed_instance_id),
\* and whether the call got as far as the allocations query
process_completed_period_rollover(insts, envs, allocs, completed_instance_id) ==
    LET rows == AllocationsOf(allocs, completed_instance_id)
    IN  IF AlreadyProcessed(insts, completed_instance_id)
        THEN [instances |-> insts, envelopes |-> envs, allocations_read |-> FALSE]
        ELSE IF rows = {}
        THEN [instances |-> insts, envelopes |-> envs, allocations_read |-> TRUE]
        ELSE [instances |-> MarkProcessed(insts, completed_instance_id),
              envelopes |-> [e \in DOMAIN envs |->
                                [envs[e] EXCEPT !.cookie_jar = RolledJar(envs, rows, e)]],
              allocations_read |-> TRUE]

(***************************************************************************)
(* Pay Cycle Registry                                                      *)
(***************************************************************************)
MaxInstances == 2

MaxTransactions == 2

\* the days on which requests arrive
RequestDays == {20230210, 20230215, 20230228}

StartDate == CHOOSE d \in RequestDays : \A e \in RequestDays : d <= e

\* the schedules the set-up form sends: frequency, pay_day_1, pay_day_2
FormSchedules ==
    {<<"monthly", 15, Null>>, <<"monthly", 31, Null>>, <<"bimonthly", 15, 31>>}

ExpectedAmounts == {100}

\* the checks create_pay_cycle makes on its request
ValidNewCycle(frequency, pay_day_1, pay_day_2, pay_day_of_week) ==
    IF frequency \in {"monthly", "bimonthly"}
    THEN pay_day_1 # Null /\ (frequency = "bimonthly" => pay_day_2 # Null)
    ELSE frequency = "weekly" /\ pay_day_of_week # Null

\* pay_day_of_week is checked and stored; nothing reads it afterwards
create_pay_cycle(frequency, pay_day_1, pay_day_2, pay_day_of_week, expected_amount) ==
    /\ pay_cycle = NoCycle
    /\ ValidNewCycle(frequency, pay_day_1, pay_day_2, pay_day_of_week)
    /\ pay_cycle' = [frequency |-> frequency, pay_day_1 |-> pay_day_1,
                     pay_day_2 |-> pay_day_2, expected_amount |-> expected_amount]
    /\ response' = NoResponse
    /\ UNCHANGED <<today, calcVars, recurVars, sahod_pay_cycle_instances, next_instance_id,
                   budgetVars, ledgerVars>>

\* rows the delete of update_pay_cycle removes: is_assumed and confirmed_at null
Unconfirmed(i) == i.is_assumed /\ i.confirmed_at = Null

\* an edit that deletes no instance
InstancesKept(insts) == insts

InstancesAfterEdit(insts) == {i \in insts : ~Unconfirmed(i)}

\* frequency of an update request that gives none
NoFrequency == "unset"

\* a field of the update is written when the request gives it
Updated(old, new) == IF new = Null THEN old ELSE new

update_pay_cycle(frequency, pay_day_1, pay_day_2) ==
    /\ pay_cycle # NoCycle
    /\ frequency # NoFrequency \/ pay_day_1 # Null \/ pay_day_2 # Null
    /\ sahod_pay_cycle_instances' = InstancesAfterEdit(sahod_pay_cycle_instances)
    /\ pay_cycle' = [pay_cycle EXCEPT
                        !.frequency = IF frequency = NoFrequency THEN @ ELSE frequency,
                        !.pay_day_1 = Updated(@, pay_day_1),
                        !.pay_day_2 = Updated(@, pay_day_2)]
    /\ response' = NoResponse
    /\ UNCHANGED <<today, calcVars, recurVars, next_instance_id, budgetVars, ledgerVars>>

\* date(y, 1, 1).toordinal() - 1
DaysBeforeYear(y) ==
    LET p == y - 1 IN 365 * p + (p \div 4) - (p \div 100) + (p \div 400)

RECURSIVE DaysBeforeMonth(_, _)
DaysBeforeMonth(y, m) ==
    IF m = 1 THEN 0 ELSE DaysBeforeMonth(y, m - 1) + DaysInMonth(y, m - 1)

\* date.toordinal()
ToOrdinal(d) == DaysBeforeYear(Year(d)) + DaysBeforeMonth(Year(d), Month(d)) + Day(d)

\* the allocation query of use_from_cookie_jar and of fill_allocations
AllocationFor(allocs, instance_id, envelope_id) ==
    {a \in allocs : a.pay_cycle_instance_id = instance_id /\ a.envelope_id = envelope_id}

(***************************************************************************)
(* Safe daily spend.  Amounts are whole centavos, so round(x, 2) of an     *)
(* amount in pesos is rounding to a whole centavo.  The quotient is a      *)
(* float: where the exact quotient lies half-way between two centavos the  *)
(* float is a little to one side of it, and half_up says to which.         *)
(***************************************************************************)
\* a budget test that lets every budget through
BudgetNeverExhausted(remaining_budget) == FALSE

\* if remaining_budget <= 0: return 0.0
BudgetExhausted(remaining_budget) == remaining_budget <= 0

\* round(remaining_budget / days_left, 2), for days_left > 0
Rounded(remaining_budget, days_left, half_up) ==
    LET quotient == remaining_budget \div days_left
        rest == remaining_budget % days_left
    IN  IF 2 * rest < days_left THEN quotient
        ELSE IF 2 * rest > days_left THEN quotient + 1
        ELSE IF half_up THEN quotient + 1 ELSE quotient

calculate_safe_daily_spend(remaining_budget, days_left, half_up) ==
    IF days_left <= 0 THEN 0
    ELSE IF BudgetExhausted(remaining_budget) THEN 0
    ELSE Rounded(remaining_budget, days_left, half_up)

\* days_remaining of get_current_instance's answer:
\* max(0, (period_end - today).days + 1)
DaysRemaining(instance) ==
    LET days_remaining == (ToOrdinal(instance.period_end) - ToOrdinal(today)) + 1
    IN  IF days_remaining > 0 THEN days_remaining ELSE 0

\* total_remaining of get_dashboard over the envelopes from k on; alloc_map
\* holds one allocation of the instance per envelope
RECURSIVE TotalRemaining(_, _, _, _)
TotalRemaining(envs, allocs, instance_id, k) ==
    IF k > Len(envs) THEN 0
    ELSE LET rows == AllocationFor(allocs, instance_id, k)
             remaining ==
                IF rows = {} THEN 0
                ELSE LET alloc == CHOOSE a \in rows : TRUE
                     IN  (alloc.allocated_amount + alloc.rollover_amount) - alloc.cached_spent
         IN  remaining + TotalRemaining(envs, allocs, instance_id, k + 1)

\* the summary get_dashboard answers with, on the instance that
\* get_current_instance returned; that call writes no allocation and adds or
\* removes no envelope
Summary(instance, half_up) ==
    LET total_remaining ==
            TotalRemaining(sahod_envelopes, sahod_allocations, instance.id, 1)
        days_remaining == DaysRemaining(instance)
    IN  [op |-> "get_dashboard", status |-> "ok", instance_id |-> instance.id,
         remaining_budget |-> total_remaining,
         days_left |-> days_remaining,
         safe_daily_spend |->
            calculate_safe_daily_spend(total_remaining, days_remaining, half_up)]

(***************************************************************************)
(* Period Instance Manager                                                 *)
(***************************************************************************)
CurrentPeriod == 
    get_period_for_date(pay_cycle.frequency, pay_cycle.pay_day_1,
                        pay_cycle.pay_day_2, today)

\* period_start <= today <= period_end
ContainingToday(insts) ==
    {i \in insts : i.period_start <= today /\ i.period_end >= today}

\* an unconfirmed instance whose stored range is not the freshly computed one
Mismatched(instance, correct) ==
    /\ instance.is_assumed
    /\ instance.confirmed_at = Null
    /\ \/ instance.period_start # correct.period_start
       \/ instance.period_end # correct.period_end

\* first row of: confirmed, period_end < today, order by period_end desc
LastCompleted(insts) ==
    LET done == {i \in insts : i.period_end < today /\ ~i.is_assumed}
    IN  {i \in done : \A j \in done : j.period_end <= i.period_end}

NewInstance(id, correct) ==
    [id |-> id,
     expected_amount |-> pay_cycle.expected_amount,
     period_start |-> correct.period_start,
     period_end |-> correct.period_end,
     expected_pay_date |-> correct.expected_pay_date,
     payday_type |-> correct.payday_type,
     is_assumed |-> TRUE,
     confirmed_at |-> Null,
     actual_amount |-> Null,
     rollover_processed |-> FALSE]

\* the store after the rollover trigger for the period that just ended
AfterRolloverTrigger(insts, last_period) ==
    IF last_period.rollover_processed
    THEN [instances |-> insts, envelopes |-> sahod_envelopes]
    ELSE process_completed_period_rollover(insts, sahod_envelopes,
                                           sahod_allocations, last_period.id)

Returned(id, created) ==
    [op |-> "get_current_instance", status |-> "ok", instance_id |-> id, created |-> created]

\* what the endpoint op answers on the instance: get_current_instance the
\* instance, get_dashboard its summary
Answer(op, instance, created, half_up) ==
    IF op = "get_dashboard" THEN Summary(instance, half_up)
    ELSE Returned(instance.id, created)

\* "if instance is None": rollover for the last completed period, then insert
CreateCurrent(insts, correct, op, half_up) ==
    /\ next_instance_id <= MaxInstances
    /\ \/ /\ LastCompleted(insts) = {}
          /\ sahod_envelopes' = sahod_envelopes
          /\ sahod_pay_cycle_instances' =
                insts \cup {NewInstance(next_instance_id, correct)}
       \/ \E last_period \in LastCompleted(insts) :
            LET after == AfterRolloverTrigger(insts, last_period)
            IN  /\ sahod_envelopes' = after.envelopes
                /\ sahod_pay_cycle_instances' =
                      after.instances \cup {NewInstance(next_instance_id, correct)}
    /\ next_instance_id' = next_instance_id + 1
    /\ response' = Answer(op, NewInstance(next_instance_id, correct), TRUE, half_up)

\* the body of get_current_instance, for the endpoint itself and for
\* get_dashboard, which awaits it and builds its own answer on the instance;
\* half_up is read by the dashboard's rounding alone
GetOrCreateCurrent(op, half_up) ==
    /\ UNCHANGED <<today, calcVars, recurVars, pay_cycle, sahod_allocations,
                   next_allocation_id, ledgerVars>>
    /\ IF pay_cycle = NoCycle
       THEN /\ response' = [op |-> op, status |-> "needs_setup"]
            /\ UNCHANGED <<sahod_pay_cycle_instances, next_instance_id, sahod_envelopes>>
       ELSE IF ~IsPeriod(CurrentPeriod)
       THEN /\ response' = [op |-> op, status |-> "error"]
            /\ UNCHANGED <<sahod_pay_cycle_instances, next_instance_id, sahod_envelopes>>
       ELSE \/ \E instance \in ContainingToday(sahod_pay_cycle_instances) :
                 IF Mismatched(instance, CurrentPeriod)
                 THEN CreateCurrent(sahod_pay_cycle_instances \ {instance}, CurrentPeriod,
                                    op, half_up)
                 ELSE /\ UNCHANGED <<sahod_pay_cycle_instances, next_instance_id,
                                     sahod_envelopes>>
                      /\ response' = Answer(op, instance, FALSE, half_up)
            \/ /\ ContainingToday(sahod_pay_cycle_instances) = {}
               /\ CreateCurrent(sahod_pay_cycle_instances, CurrentPeriod, op, half_up)

get_current_instance == GetOrCreateCurrent("get_current_instance", FALSE)

get_dashboard(half_up) == GetOrCreateCurrent("get_dashboard", half_up)

(***************************************************************************)
(* Confirmation                                                            *)
(***************************************************************************)
\* the expense_categories table holds the default income category "Salary"
SalaryCategoryExists == TRUE

\* candidate_action of a request that gives none
NoAction == "none"

\* actual_amount of the request, else the instance's expected_amount
ActualAmount(instance, actual_amount) ==
    IF actual_amount # Null THEN actual_amount ELSE instance.expected_amount

\* update_data of confirm_instance; confirmed_at is the day of now()
Confirmed(instance, amount) ==
    [instance EXCEPT !.is_assumed = FALSE, !.confirmed_at = today,
                     !.actual_amount = amount]

ConfirmRow(insts, instance, amount) ==
    {IF i.id = instance.id THEN Confirmed(i, amount) ELSE i : i \in insts}

\* a candidate query that finds nothing
NoCandidates(txs, instance, amount) == {}

\* the candidate query: unlinked salary income within 2 days of the pay date
\* and 10% of the amount
Candidates(txs, instance, amount) ==
    {t \in txs :
        /\ t.transaction_type = "income"
        /\ t.sahod_instance_id = Null
        /\ t.transaction_date >= AddDays(instance.period_start, -2)
        /\ t.transaction_date <= AddDays(instance.period_start, 2)
        /\ 10 * t.amount >= 9 * amount
        /\ 10 * t.amount <= 11 * amount
        /\ t.category = "salary"}

\* the "existing dedup" query: an income row linked to the instance
ExistingIncome(txs, instance_id) ==
    {t \in txs : t.sahod_instance_id = instance_id /\ t.transaction_type = "income"}

IncomeRow(id, instance_id, amount) ==
    [id |-> id, transaction_type |-> "income", amount |-> amount,
     category |-> IF SalaryCategoryExists THEN "salary" ELSE "none",
     transaction_date |-> today, source |-> "manual",
     sahod_instance_id |-> instance_id, recurring_rule_id |-> Null]

\* update ... set sahod_instance_id where id = candidate_tx_id
LinkRow(txs, candidate_tx_id, instance_id) ==
    {IF t.id = candidate_tx_id THEN [t EXCEPT !.sahod_instance_id = instance_id] ELSE t :
        t \in txs}

ConfirmedResponse(instance_id) ==
    [op |-> "confirm_instance", status |-> "confirmed", instance_id |-> instance_id]

\* the branch candidate_action = "link" with a candidate_tx_id
ConfirmLink(instance, amount, candidate_tx_id) ==
    /\ kaban_transactions' = LinkRow(kaban_transactions, candidate_tx_id, instance.id)
    /\ sahod_pay_cycle_instances' = ConfirmRow(sahod_pay_cycle_instances, instance, amount)
    /\ response' = ConfirmedResponse(instance.id)
    /\ UNCHANGED next_tx_id

\* the normal flow: confirm, then record the income unless one is linked
ConfirmNormal(instance, amount) ==
    /\ sahod_pay_cycle_instances' = ConfirmRow(sahod_pay_cycle_instances, instance, amount)
    /\ response' = ConfirmedResponse(instance.id)
    /\ IF ExistingIncome(kaban_transactions, instance.id) = {}
       THEN /\ next_tx_id <= MaxTransactions
            /\ kaban_transactions' =
                  kaban_transactions \cup {IncomeRow(next_tx_id, instance.id, amount)}
            /\ next_tx_id' = next_tx_id + 1
       ELSE UNCHANGED ledgerVars

confirm_instance(instance_id, actual_amount, candidate_action, candidate_tx_id) ==
    /\ UNCHANGED <<today, calcVars, recurVars, pay_cycle, next_instance_id, budgetVars>>
    /\ \E instance \in sahod_pay_cycle_instances :
        /\ instance.id = instance_id
        /\ LET amount == ActualAmount(instance, actual_amount)
           IN  IF candidate_action = "link" /\ candidate_tx_id # Null
               THEN ConfirmLink(instance, amount, candidate_tx_id)
               ELSE IF /\ candidate_action = NoAction
                       /\ SalaryCategoryExists
                       /\ Candidates(kaban_transactions, instance, amount) # {}
               THEN \E candidate \in Candidates(kaban_transactions, instance, amount) :
                       /\ response' = [op |-> "confirm_instance",
                                       status |-> "candidate_found",
                                       candidate |-> candidate.id]
                       /\ UNCHANGED <<sahod_pay_cycle_instances, ledgerVars>>
               ELSE ConfirmNormal(instance, amount)

(***************************************************************************)
(* Ledger: manual entries                                                  *)
(***************************************************************************)
ManualKinds == {<<"income", "salary">>}

ManualAmounts == {100}

create_kaban_transaction(transaction_type, category, amount) ==
    /\ next_tx_id <= MaxTransactions
    /\ kaban_transactions' = kaban_transactions \cup
          {[id |-> next_tx_id, transaction_type |-> transaction_type,
            amount |-> amount, category |-> category,
            transaction_date |-> today, source |-> "manual",
            sahod_instance_id |-> Null, recurring_rule_id |-> Null]}
    /\ next_tx_id' = next_tx_id + 1
    /\ response' = NoResponse
    /\ UNCHANGED <<today, calcVars, recurVars, cycleVars, budgetVars>>

(***************************************************************************)
(* Spec: the pay cycle, its edits, its period instances and their          *)
(* confirmation over advancing dates.                                      *)
(***************************************************************************)
ActualAmounts == {Null, 90}

Init ==
    /\ today = StartDate
    /\ pay_cycle = NoCycle
    /\ period = NoPeriod
    /\ periods_seen = {}
    /\ EmptyStore

\* time passes until a later day of the given ones
AdvanceTo(days) ==
    /\ today' \in {d \in days : d > today}
    /\ response' = NoResponse
    /\ UNCHANGED <<calcVars, recurVars, cycleVars, budgetVars, ledgerVars>>

\* time passes until the next day on which a request arrives
AdvanceDay == AdvanceTo(RequestDays)

CreatePayCycle ==
    \E s \in FormSchedules, a \in ExpectedAmounts :
        create_pay_cycle(s[1], s[2], s[3], Null, a)

UpdatePayCycle ==
    \E s \in FormSchedules : update_pay_cycle(s[1], s[2], s[3])

GetCurrentInstance == get_current_instance

\* candidate_action and candidate_tx_id of a confirm request
ConfirmChoices ==
    {<<NoAction, Null>>, <<"skip", Null>>} \cup {<<"link", tx>> : tx \in 1..MaxTransactions}

ConfirmInstance ==
    \E id \in 1..MaxInstances, a \in ActualAmounts, c \in ConfirmChoices :
        confirm_instance(id, a, c[1], c[2])

CreateKabanTransaction ==
    \E k \in ManualKinds, a \in ManualAmounts :
        create_kaban_transaction(k[1], k[2], a)

Next ==
    \/ AdvanceDay
    \/ CreatePayCycle
    \/ UpdatePayCycle
    \/ GetCurrentInstance
    \/ ConfirmInstance

Spec == Init /\ [][Next]_vars

(***************************************************************************)
(* SpecIncome: confirmation against a ledger that also holds income the    *)
(* user entered by hand; the schedule is not edited.                       *)
(***************************************************************************)
NextIncome ==
    \/ AdvanceDay
    \/ CreatePayCycle
    \/ GetCurrentInstance
    \/ ConfirmInstance
    \/ CreateKabanTransaction

SpecIncome == Init /\ [][NextIncome]_vars

(***************************************************************************)
(* SpecRollover: a confirmed period has ended with allocations on the      *)
(* user's envelopes; the rollover helper runs on it, by itself and from    *)
(* the lookup that opens the next period.                                  *)
(***************************************************************************)
JarValues == {0, 50}

SpentValues == {0, 40, 120}

EnvelopeIds == {1, 2}

EndedInstance ==
    [id |-> 1, expected_amount |-> 100,
     period_start |-> 20230115, period_end |-> 20230214,
     expected_pay_date |-> 20230115, payday_type |-> "single",
     is_assumed |-> FALSE, confirmed_at |-> 20230115, actual_amount |-> 100,
     rollover_processed |-> FALSE]

\* an envelope's row of the ended period: what was allocated and spent
AllocationRow(e, spent) ==
    [id |-> e, pay_cycle_instance_id |-> EndedInstance.id, envelope_id |-> e,
     allocated_amount |-> 100, rollover_amount |-> 0, cached_spent |-> spent]

InitRollover ==
    /\ today = NextDay(EndedInstance.period_end)
    /\ pay_cycle = [frequency |-> "monthly", pay_day_1 |-> 15, pay_day_2 |-> Null,
                    expected_amount |-> 100]
    /\ period = NoPeriod
    /\ periods_seen = {}
    /\ sahod_pay_cycle_instances = {EndedInstance}
    /\ next_instance_id = 2
    /\ sahod_envelopes \in [EnvelopeIds -> [is_rollover : BOOLEAN, cookie_jar : JarValues]]
    /\ \E funded \in SUBSET EnvelopeIds :
         \E spent \in [funded -> SpentValues] :
            sahod_allocations = {AllocationRow(e, spent[e]) : e \in funded}
    /\ next_allocation_id = 3
    /\ kaban_transactions = {}
    /\ next_tx_id = 1
    /\ recurring_rules = <<>>
    /\ workers = [w \in Workers |-> Idle]
    /\ response = NoResponse

\* process_completed_period_rollover(user_id, completed_instance_id)
ProcessCompletedPeriod ==
    \E instance \in sahod_pay_cycle_instances :
        LET after == process_completed_period_rollover(
                        sahod_pay_cycle_instances, sahod_envelopes,
                        sahod_allocations, instance.id)
        IN  /\ sahod_pay_cycle_instances' = after.instances
            /\ sahod_envelopes' = after.envelopes
            /\ response' = [op |-> "process_completed_period_rollover",
                            instance_id |-> instance.id,
                            allocations_read |-> after.allocations_read]
            /\ UNCHANGED <<today, calcVars, recurVars, pay_cycle, next_instance_id,
                           sahod_allocations, next_allocation_id, ledgerVars>>

NextRollover ==
    \/ ProcessCompletedPeriod
    \/ GetCurrentInstance

SpecRollover == InitRollover /\ [][NextRollover]_vars

(***************************************************************************)
(* Recurring rules and their reconciliation                                *)
(***************************************************************************)
\* date.weekday(): Monday is 0, Sunday is 6
Weekday(d) == (ToOrdinal(d) + 6) % 7

\* last_day of get_scheduled_dates_for_rule: December is taken as 31
LastDayOf(check_year, check_month) ==
    IF check_month < 12
    THEN Day(PrevDay(MkDate(check_year, check_month + 1, 1)))
    ELSE 31

\* while current.month == check_month: append current, add 7 days
RECURSIVE WeeklyFrom(_, _)
WeeklyFrom(current, check_month) ==
    IF Month(current) # check_month THEN <<>>
    ELSE <<current>> \o WeeklyFrom(AddDays(current, 7), check_month)

\* datetime.date(y, m, d) raises ValueError for a day below 1; the function
\* then returns what it had collected
get_scheduled_dates_for_rule(rule, check_month, check_year) ==
    LET schedule_day == rule.schedule_day
        last_day == LastDayOf(check_year, check_month)
    IN  IF rule.frequency = "monthly" THEN
            LET actual_day == Min(schedule_day, last_day)
            IN  IF actual_day < 1 THEN <<>>
                ELSE <<MkDate(check_year, check_month, actual_day)>>
        ELSE IF rule.frequency = "bimonthly" THEN
            LET first_day == Min(schedule_day, last_day)
                second_day == Min(schedule_day + 15, last_day)
            IN  IF first_day < 1 THEN <<>>
                ELSE IF second_day # first_day
                THEN <<MkDate(check_year, check_month, first_day),
                       MkDate(check_year, check_month, second_day)>>
                ELSE <<MkDate(check_year, check_month, first_day)>>
        ELSE IF rule.frequency = "weekly" THEN
            LET first_of_month == MkDate(check_year, check_month, 1)
                days_until_target == (schedule_day - Weekday(first_of_month)) % 7
            IN  WeeklyFrom(AddDays(first_of_month, days_until_target), check_month)
        ELSE <<>>

\* the current month, then the previous one
months_to_check(day) ==
    <<  <<Year(day), Month(day)>>,
        IF Month(day) = 1 THEN <<Year(day) - 1, 12>> ELSE <<Year(day), Month(day) - 1>> >>

\* a skip of the future dates alone
NotInFuture(rule, scheduled_date, day) == scheduled_date <= day

\* the three skips: in the future, before the rule was created, not after
\* the last_posted_date the rule had when the rules were read
Due(rule, scheduled_date, day) ==
    /\ scheduled_date <= day
    /\ scheduled_date >= rule.created_at
    /\ ~(rule.last_posted_date # Null /\ scheduled_date <= rule.last_posted_date)

\* the scheduled dates of a rule that pass the skips, in the order of the loops
DueDates(rule, day) ==
    LET months == months_to_check(day)
        scheduled ==
            get_scheduled_dates_for_rule(rule, months[1][2], months[1][1]) \o
            get_scheduled_dates_for_rule(rule, months[2][2], months[2][1])
    IN  SelectSeq(scheduled, LAMBDA d : Due(rule, d, day))

\* the (rule id, scheduled date) pairs a run goes through, from rule n on
RECURSIVE WorkList(_, _, _)
WorkList(rules, n, day) ==
    IF n > Len(rules) THEN <<>>
    ELSE LET dates == IF rules[n].is_active THEN DueDates(rules[n], day) ELSE <<>>
         IN  [k \in 1..Len(dates) |-> <<n, dates[k]>>] \o WorkList(rules, n + 1, day)

\* an existence query that finds nothing
ExistenceUnchecked(txs, rule_id, scheduled_date) == {}

\* the existence query on (recurring_rule_id, transaction_date)
ExistingFor(txs, rule_id, scheduled_date) ==
    {t \in txs : t.recurring_rule_id = rule_id /\ t.transaction_date = scheduled_date}

\* tx_data
RecurringRow(id, rule, scheduled_date) ==
    [id |-> id, transaction_type |-> rule.transaction_type, amount |-> rule.amount,
     category |-> rule.category, transaction_date |-> scheduled_date,
     source |-> "recurring", sahod_instance_id |-> Null, recurring_rule_id |-> rule.id]

\* update recurring_rules set last_posted_date where id = rule_id
SetLastPosted(rules, rule_id, scheduled_date) ==
    IF rule_id \in DOMAIN rules
    THEN [rules EXCEPT ![rule_id].last_posted_date = scheduled_date]
    ELSE rules

MaxRules == 2

MaxLedgerRows == 4

\* the rules the form sends: frequency and schedule_day
RuleForms == {<<"monthly", 31>>, <<"bimonthly", 15>>, <<"weekly", 0>>}

RuleAmounts == {100}

\* the days on which the ledger is read
ReconcileDays == {20230225, 20230228, 20230306}

\* the checks create_recurring_rule makes on schedule_day
ValidScheduleDay(frequency, schedule_day) ==
    /\ frequency = "monthly" => (1 <= schedule_day /\ schedule_day <= 31)
    /\ frequency = "bimonthly" => (1 <= schedule_day /\ schedule_day <= 15)
    /\ frequency = "weekly" => (0 <= schedule_day /\ schedule_day <= 6)

\* the duplicate check: an active rule with the same amount and schedule
SimilarRules(rules, amount, frequency, schedule_day) ==
    {n \in DOMAIN rules :
        /\ rules[n].amount = amount
        /\ rules[n].frequency = frequency
        /\ rules[n].schedule_day = schedule_day
        /\ rules[n].is_active}

create_recurring_rule(amount, frequency, schedule_day) ==
    /\ Len(recurring_rules) < MaxRules
    /\ ValidScheduleDay(frequency, schedule_day)
    /\ SimilarRules(recurring_rules, amount, frequency, schedule_day) = {}
    /\ recurring_rules' = Append(recurring_rules,
          [id |-> Len(recurring_rules) + 1, amount |-> amount,
           transaction_type |-> "income", category |-> "salary",
           frequency |-> frequency, schedule_day |-> schedule_day,
           is_active |-> TRUE, last_posted_date |-> Null, created_at |-> today])
    /\ response' = NoResponse
    /\ UNCHANGED <<today, calcVars, cycleVars, budgetVars, ledgerVars, workers>>

\* the loop body of process_pending_recurring_transactions applied to each
\* pair of the work list in turn: existence query, insert, last_posted_date
RECURSIVE PostPending(_, _, _, _, _)
PostPending(todo, snapshot, txs, rules, next_id) ==
    IF todo = <<>> THEN [txs |-> txs, rules |-> rules, next_id |-> next_id]
    ELSE LET rule_id == Head(todo)[1]
             scheduled_date == Head(todo)[2]
         IN  IF ExistingFor(txs, rule_id, scheduled_date) # {}
             THEN PostPending(Tail(todo), snapshot, txs, rules, next_id)
             ELSE PostPending(Tail(todo), snapshot,
                              txs \cup {RecurringRow(next_id, snapshot[rule_id], scheduled_date)},
                              SetLastPosted(rules, rule_id, scheduled_date),
                              next_id + 1)

\* process_pending_recurring_transactions(user_id), run from start to end
process_pending_recurring_transactions ==
    PostPending(WorkList(recurring_rules, 1, today), recurring_rules,
                kaban_transactions, recurring_rules, next_tx_id)

Listed(inserted) == [op |-> "get_kaban_transactions", inserted |-> inserted]

\* get_kaban_transactions: reconcile, then read the ledger
get_kaban_transactions ==
    LET after == process_pending_recurring_transactions
    IN  /\ after.next_id <= MaxLedgerRows + 1
        /\ kaban_transactions' = after.txs
        /\ recurring_rules' = after.rules
        /\ next_tx_id' = after.next_id
        /\ response' = Listed(after.next_id - next_tx_id)
        /\ UNCHANGED <<today, calcVars, cycleVars, budgetVars, workers>>

(***************************************************************************)
(* SpecRecur: rules are created and the ledger is read, one request at a   *)
(* time, over advancing dates.                                             *)
(***************************************************************************)
InitRecur ==
    /\ today = CHOOSE d \in ReconcileDays : \A e \in ReconcileDays : d <= e
    /\ pay_cycle = NoCycle
    /\ period = NoPeriod
    /\ periods_seen = {}
    /\ EmptyStore

AdvanceReconcileDay == AdvanceTo(ReconcileDays)

CreateRecurringRule ==
    \E f \in RuleForms, a \in RuleAmounts : create_recurring_rule(a, f[1], f[2])

GetKabanTransactions == get_kaban_transactions

NextRecur ==
    \/ AdvanceReconcileDay
    \/ CreateRecurringRule
    \/ GetKabanTransactions

SpecRecur == InitRecur /\ [][NextRecur]_vars

(***************************************************************************)
(* SpecRecurConc: the same, with the reads of the ledger in flight at the  *)
(* same time and interleaved at each call to the store.                    *)
(***************************************************************************)
\* what a request does after the pair at the head of its work list
Advance(worker) ==
    [worker EXCEPT !.todo = Tail(@),
                   !.pc = IF Tail(worker.todo) = <<>> THEN "read" ELSE "check"]

\* the rules query, and the skips that read only the rule rows it returned
LoadRules(w) ==
    /\ workers[w].pc = "idle"
    /\ LET todo == WorkList(recurring_rules, 1, today)
       IN  workers' = [workers EXCEPT ![w] =
                          [pc |-> IF todo = <<>> THEN "read" ELSE "check",
                           todo |-> todo, rules |-> recurring_rules]]
    /\ response' = NoResponse
    /\ UNCHANGED <<today, calcVars, cycleVars, budgetVars, ledgerVars, recurring_rules>>

\* the existence query, and the "continue" when it finds a row
CheckExisting(w) ==
    /\ workers[w].pc = "check"
    /\ LET head == Head(workers[w].todo)
       IN  workers' = [workers EXCEPT ![w] =
                          IF ExistingFor(kaban_transactions, head[1], head[2]) # {}
                          THEN Advance(@)
                          ELSE [@ EXCEPT !.pc = "insert"]]
    /\ response' = NoResponse
    /\ UNCHANGED <<today, calcVars, cycleVars, budgetVars, ledgerVars, recurring_rules>>

\* the insert of tx_data
InsertTransaction(w) ==
    /\ workers[w].pc = "insert"
    /\ next_tx_id <= MaxLedgerRows
    /\ LET head == Head(workers[w].todo)
       IN  kaban_transactions' = kaban_transactions \cup
              {RecurringRow(next_tx_id, workers[w].rules[head[1]], head[2])}
    /\ next_tx_id' = next_tx_id + 1
    /\ workers' = [workers EXCEPT ![w].pc = "update"]
    /\ response' = NoResponse
    /\ UNCHANGED <<today, calcVars, cycleVars, budgetVars, recurring_rules>>

\* the update of last_posted_date that follows a successful insert
UpdateLastPosted(w) ==
    /\ workers[w].pc = "update"
    /\ LET head == Head(workers[w].todo)
       IN  recurring_rules' = SetLastPosted(recurring_rules, head[1], head[2])
    /\ workers' = [workers EXCEPT ![w] = Advance(@)]
    /\ response' = NoResponse
    /\ UNCHANGED <<today, calcVars, cycleVars, budgetVars, ledgerVars>>

\* the read of the ledger that ends the request
ReadTransactions(w) ==
    /\ workers[w].pc = "read"
    /\ workers' = [workers EXCEPT ![w] = Idle]
    /\ response' = NoResponse
    /\ UNCHANGED <<today, calcVars, cycleVars, budgetVars, ledgerVars, recurring_rules>>

Reconcile ==
    \E w \in Workers :
        \/ LoadRules(w)
        \/ CheckExisting(w)
        \/ InsertTransaction(w)
        \/ UpdateLastPosted(w)
        \/ ReadTransactions(w)

NextRecurConc ==
    \/ AdvanceReconcileDay
    \/ CreateRecurringRule
    \/ Reconcile

SpecRecurConc == InitRecur /\ [][NextRecurConc]_vars

(***************************************************************************)
(* Allocation Engine                                                       *)
(***************************************************************************)
Rejected(op, status) == [op |-> op, status |-> status]

AllocationsById(allocs, allocation_id) == {a \in allocs : a.id = allocation_id}

\* the instance row joined to an allocation
InstanceOf(insts, alloc) == {i \in insts : i.id = alloc.pay_cycle_instance_id}

\* is_locked = instance.get('confirmed_at') is not None
IsLocked(instance) == instance.confirmed_at # Null

\* a rule that never finds a shortfall
NeverBelowSpent(alloc, new_amount) == FALSE

\* Rule 1 of update_allocation: the new amount is below what is spent
BelowSpent(alloc, new_amount) == new_amount < alloc.cached_spent

\* the validation of update_allocation on a locked period
Shortfall(alloc, locked, update_data) ==
    /\ locked
    /\ "allocated_amount" \in DOMAIN update_data
    /\ BelowSpent(alloc, update_data.allocated_amount)

\* update ... set the given fields where id = allocation_id
WithFields(allocs, allocation_id, update_data) ==
    {IF a.id = allocation_id
     THEN [f \in DOMAIN a |-> IF f \in DOMAIN update_data THEN update_data[f] ELSE a[f]]
     ELSE a : a \in allocs}

\* update_data holds the fields of the request that are not None
update_allocation(allocation_id, update_data) ==
    /\ UNCHANGED <<today, calcVars, recurVars, cycleVars, ledgerVars, sahod_envelopes,
                   next_allocation_id>>
    /\ IF DOMAIN update_data = {}
       THEN /\ response' = Rejected("update_allocation", "no_fields")
            /\ UNCHANGED sahod_allocations
       ELSE IF AllocationsById(sahod_allocations, allocation_id) = {}
       THEN /\ response' = Rejected("update_allocation", "not_found")
            /\ UNCHANGED sahod_allocations
       ELSE \E alloc \in AllocationsById(sahod_allocations, allocation_id) :
              LET locked == \E i \in InstanceOf(sahod_pay_cycle_instances, alloc) : IsLocked(i)
              IN  IF Shortfall(alloc, locked, update_data)
                  THEN /\ response' = [op |-> "update_allocation",
                                       status |-> "validation_error",
                                       allocation_id |-> allocation_id,
                                       request |-> update_data]
                       /\ UNCHANGED sahod_allocations
                  ELSE /\ sahod_allocations' =
                              WithFields(sahod_allocations, allocation_id, update_data)
                       /\ response' = [op |-> "update_allocation", status |-> "ok",
                                       allocation_id |-> allocation_id,
                                       request |-> update_data]

\* a withdrawal that takes nothing from the jar
JarKept(cookie_jar, amount) == cookie_jar

\* new_cookie_jar = current_cookie_jar - amount
JarAfterWithdrawal(cookie_jar, amount) == cookie_jar - amount

Withdrawn(envelope_id, amount) ==
    [op |-> "use_from_cookie_jar", status |-> "ok", envelope_id |-> envelope_id,
     amount |-> amount]

\* a withdrawal refused after the request was validated
Refused(status, envelope_id, amount) ==
    [op |-> "use_from_cookie_jar", status |-> status, envelope_id |-> envelope_id,
     amount |-> amount]

\* .single() gives a row only when the query matches exactly one
use_from_cookie_jar(tier, envelope_id, amount) ==
    /\ UNCHANGED <<today, calcVars, recurVars, cycleVars, ledgerVars, next_allocation_id>>
    /\ IF tier # "pro"
       THEN /\ response' = Rejected("use_from_cookie_jar", "forbidden")
            /\ UNCHANGED <<sahod_envelopes, sahod_allocations>>
       ELSE IF amount <= 0
       THEN /\ response' = Rejected("use_from_cookie_jar", "not_positive")
            /\ UNCHANGED <<sahod_envelopes, sahod_allocations>>
       ELSE IF envelope_id \notin DOMAIN sahod_envelopes
       THEN /\ response' = Rejected("use_from_cookie_jar", "no_envelope")
            /\ UNCHANGED <<sahod_envelopes, sahod_allocations>>
       ELSE IF amount > sahod_envelopes[envelope_id].cookie_jar
       THEN /\ response' = Refused("insufficient", envelope_id, amount)
            /\ UNCHANGED <<sahod_envelopes, sahod_allocations>>
       ELSE IF Cardinality(ContainingToday(sahod_pay_cycle_instances)) # 1
       THEN /\ response' = Rejected("use_from_cookie_jar", "no_period")
            /\ UNCHANGED <<sahod_envelopes, sahod_allocations>>
       ELSE \E instance \in ContainingToday(sahod_pay_cycle_instances) :
              LET rows == AllocationFor(sahod_allocations, instance.id, envelope_id)
              IN  IF Cardinality(rows) # 1
                  THEN /\ response' = Refused("no_allocation", envelope_id, amount)
                       /\ UNCHANGED <<sahod_envelopes, sahod_allocations>>
                  ELSE \E allocation \in rows :
                         LET new_cookie_jar ==
                                JarAfterWithdrawal(sahod_envelopes[envelope_id].cookie_jar, amount)
                             new_rollover == allocation.rollover_amount + amount
                         IN  /\ sahod_envelopes' =
                                    [sahod_envelopes EXCEPT ![envelope_id].cookie_jar = new_cookie_jar]
                             /\ sahod_allocations' =
                                    WithFields(sahod_allocations, allocation.id,
                                               [rollover_amount |-> new_rollover])
                             /\ response' = Withdrawn(envelope_id, amount)

\* the instance query of fill_allocations for the previous period:
\* period_start < this one's, order by period_start desc, limit 1
PreviousInstances(insts, instance) ==
    LET earlier == {i \in insts : i.period_start < instance.period_start}
    IN  {i \in earlier : \A j \in earlier : j.period_start <= i.period_start}

\* a rollover-in that keeps a negative remainder
RemainderUnfloored(remaining) == remaining

\* rollover_amount = max(0, remaining)
RolloverIn(remaining) == IF remaining > 0 THEN remaining ELSE 0

NoInstance == [id |-> Null]

\* rollover_amount of the row fill_allocations inserts for an envelope
RolloverFor(envs, allocs, prev_instance, envelope_id) ==
    IF ~envs[envelope_id].is_rollover \/ prev_instance = NoInstance THEN 0
    ELSE LET rows == AllocationFor(allocs, prev_instance.id, envelope_id)
         IN  IF Cardinality(rows) # 1 THEN 0
             ELSE LET prev == CHOOSE a \in rows : TRUE
                  IN  RolloverIn((prev.allocated_amount + prev.rollover_amount)
                                    - prev.cached_spent)

\* the insert loop of fill_allocations over the items from k on; the loop
\* stops before item fails_at, where a store call raised
RECURSIVE InsertAllocations(_, _, _, _, _, _, _, _)
InsertAllocations(items, k, fails_at, envs, allocs, next_id, instance, prev_instance) ==
    IF k > Len(items) \/ k = fails_at
    THEN [allocations |-> allocs, next_id |-> next_id]
    ELSE IF items[k].envelope_id \notin DOMAIN envs
    THEN InsertAllocations(items, k + 1, fails_at, envs, allocs, next_id, instance,
                           prev_instance)
    ELSE InsertAllocations(items, k + 1, fails_at, envs,
            allocs \cup {[id |-> next_id,
                          pay_cycle_instance_id |-> instance.id,
                          envelope_id |-> items[k].envelope_id,
                          allocated_amount |-> items[k].allocated_amount,
                          rollover_amount |->
                              RolloverFor(envs, allocs, prev_instance, items[k].envelope_id),
                          cached_spent |-> 0]},
            next_id + 1, instance, prev_instance)

\* fill_allocations; fails_at is the item at which a store call raised, Null
\* when none did
fill_allocations(pay_cycle_instance_id, allocations, fails_at) ==
    /\ UNCHANGED <<today, calcVars, recurVars, cycleVars, ledgerVars, sahod_envelopes>>
    /\ IF \A i \in sahod_pay_cycle_instances : i.id # pay_cycle_instance_id
       THEN /\ response' = Rejected("fill_allocations", "not_found")
            /\ UNCHANGED <<sahod_allocations, next_allocation_id>>
       ELSE \E instance \in sahod_pay_cycle_instances :
              /\ instance.id = pay_cycle_instance_id
              /\ \E prev_instance \in
                        IF PreviousInstances(sahod_pay_cycle_instances, instance) = {}
                        THEN {NoInstance}
                        ELSE PreviousInstances(sahod_pay_cycle_instances, instance) :
                    LET kept == {a \in sahod_allocations :
                                    a.pay_cycle_instance_id # instance.id}
                        after == InsertAllocations(allocations, 1, fails_at,
                                    sahod_envelopes, kept, next_allocation_id,
                                    instance, prev_instance)
                    IN  /\ sahod_allocations' = after.allocations
                        /\ next_allocation_id' = after.next_id
                        /\ response' =
                              [op |-> "fill_allocations",
                               status |-> IF fails_at = Null THEN "ok" ELSE "error",
                               instance_id |-> instance.id,
                               requested |-> allocations,
                               first_id |-> next_allocation_id]

(***************************************************************************)
(* SpecAlloc: one period has ended confirmed and the next is current,      *)
(* confirmed or not; envelopes are filled, allocations edited and cookie   *)
(* jars drawn on.  cached_spent is kept by the store from the ledger, so   *)
(* its values are those of the initial rows.                               *)
(***************************************************************************)
MaxAllocationId == 6

PreviousSpent == {700, 1200}

CurrentSpent == {700}

AllocJarValues == {0, 200}

NewAmounts == {600, 800}

WithdrawAmounts == {0, 150, 300}

Tiers == {"free", "pro"}

\* the allocation lists the fill form sends
FillLists ==
    {<<[envelope_id |-> 1, allocated_amount |-> 500]>>,
     <<[envelope_id |-> 1, allocated_amount |-> 500],
       [envelope_id |-> 2, allocated_amount |-> 400]>>}

CurrentInstance(assumed) ==
    [id |-> 2, expected_amount |-> 100,
     period_start |-> 20230215, period_end |-> 20230314,
     expected_pay_date |-> 20230215, payday_type |-> "single",
     is_assumed |-> assumed,
     confirmed_at |-> IF assumed THEN Null ELSE 20230215,
     actual_amount |-> IF assumed THEN Null ELSE 100,
     rollover_processed |-> FALSE]

FundedRow(id, instance_id, e, rollover, spent) ==
    [id |-> id, pay_cycle_instance_id |-> instance_id, envelope_id |-> e,
     allocated_amount |-> 1000, rollover_amount |-> rollover, cached_spent |-> spent]

InitAlloc ==
    /\ today = 20230215
    /\ pay_cycle = [frequency |-> "monthly", pay_day_1 |-> 15, pay_day_2 |-> Null,
                    expected_amount |-> 100]
    /\ period = NoPeriod
    /\ periods_seen = {}
    /\ \E assumed \in BOOLEAN :
          sahod_pay_cycle_instances =
              {[EndedInstance EXCEPT !.rollover_processed = TRUE], CurrentInstance(assumed)}
    /\ next_instance_id = 3
    /\ \E first \in [is_rollover : BOOLEAN, cookie_jar : AllocJarValues],
          second \in [is_rollover : {FALSE}, cookie_jar : {0}] :
            sahod_envelopes = <<first, second>>
    /\ \E before \in SUBSET EnvelopeIds, now \in SUBSET EnvelopeIds :
         \E spent_before \in [before -> PreviousSpent], spent_now \in [now -> CurrentSpent] :
            sahod_allocations =
                {FundedRow(e, 1, e, 100, spent_before[e]) : e \in before} \cup
                {FundedRow(2 + e, 2, e, 0, spent_now[e]) : e \in now}
    /\ next_allocation_id = 5
    /\ kaban_transactions = {}
    /\ next_tx_id = 1
    /\ recurring_rules = <<>>
    /\ workers = [w \in Workers |-> Idle]
    /\ response = NoResponse

FillAllocations ==
    \E id \in 1..MaxInstances, items \in FillLists :
        \E fails_at \in 0..Len(items) :
            /\ next_allocation_id + Len(items) - 1 <= MaxAllocationId
            /\ fill_allocations(id, items, fails_at)

UpdateAllocation ==
    \E id \in 1..MaxAllocationId :
        \E update_data \in {[allocated_amount |-> a] : a \in NewAmounts} \cup {<<>>} :
            update_allocation(id, update_data)

UseFromCookieJar ==
    \E tier \in Tiers, e \in EnvelopeIds, amount \in WithdrawAmounts :
        use_from_cookie_jar(tier, e, amount)

NextAlloc ==
    \/ FillAllocations
    \/ UpdateAllocation
    \/ UseFromCookieJar

SpecAlloc == InitAlloc /\ [][NextAlloc]_vars

(***************************************************************************)
(* SpecRecurFail: the ledger is read one request at a time, and in some    *)
(* reads one call to the store raises inside the reconciliation.  The      *)
(* try/except of process_pending_recurring_transactions encloses the loop  *)
(* over the rules: the error ends the run, it is logged, and the read of   *)
(* the ledger goes on.                                                     *)
(***************************************************************************)
\* the calls to the store made for one pair of the work list
StoreCalls == {"check", "insert", "update"}

\* the run when the given call for pair number fails_at of the work list
\* raises: the pairs before it are done, an insert that was made stays
failed_run(todo, fails_at, call) ==
    LET done == PostPending(SubSeq(todo, 1, fails_at - 1), recurring_rules,
                            kaban_transactions, recurring_rules, next_tx_id)
        rule_id == todo[fails_at][1]
        scheduled_date == todo[fails_at][2]
    IN  IF call = "update" /\ ExistingFor(done.txs, rule_id, scheduled_date) = {}
        THEN [done EXCEPT
                !.txs = @ \cup {RecurringRow(done.next_id, recurring_rules[rule_id],
                                             scheduled_date)},
                !.next_id = @ + 1]
        ELSE done

Interrupted(inserted, rule_id) ==
    [op |-> "get_kaban_transactions", inserted |-> inserted, failed_rule |-> rule_id]

GetKabanTransactionsStoreError ==
    LET todo == WorkList(recurring_rules, 1, today)
    IN  \E fails_at \in 1..Len(todo), call \in StoreCalls :
            LET after == failed_run(todo, fails_at, call)
            IN  /\ after.next_id <= MaxLedgerRows + 1
                /\ kaban_transactions' = after.txs
                /\ recurring_rules' = after.rules
                /\ next_tx_id' = after.next_id
                /\ response' = Interrupted(after.next_id - next_tx_id, todo[fails_at][1])
                /\ UNCHANGED <<today, calcVars, cycleVars, budgetVars, workers>>

NextRecurFail ==
    \/ AdvanceReconcileDay
    \/ CreateRecurringRule
    \/ GetKabanTransactions
    \/ GetKabanTransactionsStoreError

SpecRecurFail == InitRecur /\ [][NextRecurFail]_vars

(***************************************************************************)
(* SpecConfirmConc: confirmations of the current instance in flight at the *)
(* same time (a double tap from two devices), interleaved at each call to  *)
(* the store.  A request in flight keeps what it has read in its worker:   *)
(* todo holds the request with the instance row it fetched.                *)
(***************************************************************************)
MaxIncomeRows == 3

ConfirmActions == {NoAction, "skip"}

InitConfirmConc ==
    /\ today = 20230215
    /\ pay_cycle = [frequency |-> "monthly", pay_day_1 |-> 15, pay_day_2 |-> Null,
                    expected_amount |-> 100]
    /\ period = NoPeriod
    /\ periods_seen = {}
    /\ sahod_pay_cycle_instances =
            {[EndedInstance EXCEPT !.rollover_processed = TRUE], CurrentInstance(TRUE)}
    /\ next_instance_id = 3
    /\ sahod_envelopes = <<>>
    /\ sahod_allocations = {}
    /\ next_allocation_id = 1
    /\ \E entered \in BOOLEAN :
          /\ kaban_transactions =
                IF entered
                THEN {[id |-> 1, transaction_type |-> "income", amount |-> 100,
                       category |-> "salary", transaction_date |-> today,
                       source |-> "manual", sahod_instance_id |-> Null,
                       recurring_rule_id |-> Null]}
                ELSE {}
          /\ next_tx_id = IF entered THEN 2 ELSE 1
    /\ recurring_rules = <<>>
    /\ workers = [w \in Workers |-> Idle]
    /\ response = NoResponse

\* the request a worker is serving
Serving(w) == Head(workers[w].todo)

\* instance_res: the instance is fetched and actual_amount determined
FetchInstance(w) ==
    /\ workers[w].pc = "idle"
    /\ \E instance \in sahod_pay_cycle_instances,
          actual_amount \in ActualAmounts, candidate_action \in ConfirmActions :
            /\ instance.id = CurrentInstance(TRUE).id
            /\ workers' = [workers EXCEPT ![w] =
                  [pc |-> IF candidate_action = NoAction /\ SalaryCategoryExists
                          THEN "candidates" ELSE "confirm",
                   todo |-> <<[instance |-> instance,
                               amount |-> ActualAmount(instance, actual_amount)]>>,
                   rules |-> <<>>]]
    /\ response' = NoResponse
    /\ UNCHANGED <<today, calcVars, cycleVars, budgetVars, ledgerVars, recurring_rules>>

\* candidate_query of the smarter dedup check
FindCandidate(w) ==
    /\ workers[w].pc = "candidates"
    /\ LET found == Candidates(kaban_transactions, Serving(w).instance, Serving(w).amount)
       IN  IF found # {}
           THEN /\ workers' = [workers EXCEPT ![w] = Idle]
                /\ \E candidate \in found :
                      response' = [op |-> "confirm_instance", status |-> "candidate_found",
                                   candidate |-> candidate.id]
           ELSE /\ workers' = [workers EXCEPT ![w].pc = "confirm"]
                /\ response' = NoResponse
    /\ UNCHANGED <<today, calcVars, cycleVars, budgetVars, ledgerVars, recurring_rules>>

\* the update of the instance row with update_data
UpdateInstance(w) ==
    /\ workers[w].pc = "confirm"
    /\ sahod_pay_cycle_instances' =
          ConfirmRow(sahod_pay_cycle_instances, Serving(w).instance, Serving(w).amount)
    /\ workers' = [workers EXCEPT ![w].pc = "existing"]
    /\ response' = NoResponse
    /\ UNCHANGED <<today, calcVars, pay_cycle, next_instance_id, budgetVars, ledgerVars,
                   recurring_rules>>

\* existing_tx: the query for an income row linked to the instance
FindExistingIncome(w) ==
    /\ workers[w].pc = "existing"
    /\ IF ExistingIncome(kaban_transactions, Serving(w).instance.id) = {}
       THEN /\ workers' = [workers EXCEPT ![w].pc = "insert"]
            /\ response' = NoResponse
       ELSE /\ workers' = [workers EXCEPT ![w] = Idle]
            /\ response' = ConfirmedResponse(Serving(w).instance.id)
    /\ UNCHANGED <<today, calcVars, cycleVars, budgetVars, ledgerVars, recurring_rules>>

\* the insert of tx_data, and the answer
InsertIncome(w) ==
    /\ workers[w].pc = "insert"
    /\ next_tx_id <= MaxIncomeRows
    /\ kaban_transactions' = kaban_transactions \cup
          {IncomeRow(next_tx_id, Serving(w).instance.id, Serving(w).amount)}
    /\ next_tx_id' = next_tx_id + 1
    /\ workers' = [workers EXCEPT ![w] = Idle]
    /\ response' = ConfirmedResponse(Serving(w).instance.id)
    /\ UNCHANGED <<today, calcVars, cycleVars, budgetVars, recurring_rules>>

NextConfirmConc ==
    \E w \in Workers :
        \/ FetchInstance(w)
        \/ FindCandidate(w)
        \/ UpdateInstance(w)
        \/ FindExistingIncome(w)
        \/ InsertIncome(w)

SpecConfirmConc == InitConfirmConc /\ [][NextConfirmConc]_vars

(***************************************************************************)
(* SpecJarConc: withdrawals from the cookie jars in flight at the same     *)
(* time, interleaved at the calls to the store.  A request in flight keeps *)
(* the rows it has read in its worker.  The lookup of the current instance *)
(* and that of the allocation are one step: no request here writes an      *)
(* instance.                                                               *)
(***************************************************************************)
InitJarConc ==
    /\ today = 20230215
    /\ pay_cycle = [frequency |-> "monthly", pay_day_1 |-> 15, pay_day_2 |-> Null,
                    expected_amount |-> 100]
    /\ period = NoPeriod
    /\ periods_seen = {}
    /\ sahod_pay_cycle_instances =
            {[EndedInstance EXCEPT !.rollover_processed = TRUE], CurrentInstance(FALSE)}
    /\ next_instance_id = 3
    /\ \E cookie_jar \in AllocJarValues :
          sahod_envelopes = <<[is_rollover |-> TRUE, cookie_jar |-> cookie_jar],
                              [is_rollover |-> FALSE, cookie_jar |-> 0]>>
    /\ \E funded \in SUBSET EnvelopeIds :
          sahod_allocations = {FundedRow(2 + e, 2, e, 0, 700) : e \in funded}
    /\ next_allocation_id = 5
    /\ kaban_transactions = {}
    /\ next_tx_id = 1
    /\ recurring_rules = <<>>
    /\ workers = [w \in Workers |-> Idle]
    /\ response = NoResponse

\* the checks made before the store is called, then envelope_res and the
\* balance check on the row it returned
ReadEnvelope(w) ==
    /\ workers[w].pc = "idle"
    /\ \E tier \in Tiers, envelope_id \in EnvelopeIds, amount \in WithdrawAmounts :
          IF tier # "pro"
          THEN /\ response' = Rejected("use_from_cookie_jar", "forbidden")
               /\ UNCHANGED workers
          ELSE IF amount <= 0
          THEN /\ response' = Rejected("use_from_cookie_jar", "not_positive")
               /\ UNCHANGED workers
          ELSE IF amount > sahod_envelopes[envelope_id].cookie_jar
          THEN /\ response' = Refused("insufficient", envelope_id, amount)
               /\ UNCHANGED workers
          ELSE /\ response' = NoResponse
               /\ workers' = [workers EXCEPT ![w] =
                      [pc |-> "allocation",
                       todo |-> <<[envelope_id |-> envelope_id, amount |-> amount,
                                   cookie_jar |-> sahod_envelopes[envelope_id].cookie_jar]>>,
                       rules |-> <<>>]]
    /\ UNCHANGED <<today, calcVars, cycleVars, budgetVars, ledgerVars, recurring_rules>>

\* instance_res and alloc_res
ReadAllocation(w) ==
    /\ workers[w].pc = "allocation"
    /\ IF Cardinality(ContainingToday(sahod_pay_cycle_instances)) # 1
       THEN /\ response' = Rejected("use_from_cookie_jar", "no_period")
            /\ workers' = [workers EXCEPT ![w] = Idle]
       ELSE \E instance \in ContainingToday(sahod_pay_cycle_instances) :
              LET rows == AllocationFor(sahod_allocations, instance.id,
                                        Serving(w).envelope_id)
              IN  IF Cardinality(rows) # 1
                  THEN /\ response' = Refused("no_allocation", Serving(w).envelope_id,
                                              Serving(w).amount)
                       /\ workers' = [workers EXCEPT ![w] = Idle]
                  ELSE \E allocation \in rows :
                         /\ response' = NoResponse
                         /\ workers' = [workers EXCEPT ![w] =
                                [pc |-> "write_jar",
                                 todo |-> <<[envelope_id |-> Serving(w).envelope_id,
                                             amount |-> Serving(w).amount,
                                             cookie_jar |-> Serving(w).cookie_jar,
                                             allocation |-> allocation]>>,
                                 rules |-> <<>>]]
    /\ UNCHANGED <<today, calcVars, cycleVars, budgetVars, ledgerVars, recurring_rules>>

\* update sahod_envelopes set cookie_jar = new_cookie_jar
WriteCookieJar(w) ==
    /\ workers[w].pc = "write_jar"
    /\ sahod_envelopes' =
          [sahod_envelopes EXCEPT ![Serving(w).envelope_id].cookie_jar =
              JarAfterWithdrawal(Serving(w).cookie_jar, Serving(w).amount)]
    /\ workers' = [workers EXCEPT ![w].pc = "write_rollover"]
    /\ response' = NoResponse
    /\ UNCHANGED <<today, calcVars, cycleVars, sahod_allocations, next_allocation_id,
                   ledgerVars, recurring_rules>>

\* update sahod_allocations set rollover_amount = new_rollover, and the answer
WriteRollover(w) ==
    /\ workers[w].pc = "write_rollover"
    /\ sahod_allocations' =
          WithFields(sahod_allocations, Serving(w).allocation.id,
                     [rollover_amount |->
                        Serving(w).allocation.rollover_amount + Serving(w).amount])
    /\ workers' = [workers EXCEPT ![w] = Idle]
    /\ response' = Withdrawn(Serving(w).envelope_id, Serving(w).amount)
    /\ UNCHANGED <<today, calcVars, cycleVars, sahod_envelopes, next_allocation_id,
                   ledgerVars, recurring_rules>>

NextJarConc ==
    \E w \in Workers :
        \/ ReadEnvelope(w)
        \/ ReadAllocation(w)
        \/ WriteCookieJar(w)
        \/ WriteRollover(w)

SpecJarConc == InitJarConc /\ [][NextJarConc]_vars

(***************************************************************************)
(* SpecSpend: the function on its own over budgets and day counts around   *)
(* zero, and the dashboard on a period with allocations spent below and    *)
(* above what they hold, early and late in the period and on the first     *)
(* request of a new period.                                                *)
(***************************************************************************)
Budgets == {0 - 50000, 0 - 1, 0, 1, 50, 50000, 100000}

DayCounts == {0 - 1, 0, 1, 2, 3, 4, 5}

SpendDays == {20230215, 20230312, 20230314}

SpendSpent == {0, 700, 1200, 2500}

InitSpend ==
    /\ today \in SpendDays
    /\ pay_cycle = [frequency |-> "monthly", pay_day_1 |-> 15, pay_day_2 |-> Null,
                    expected_amount |-> 100]
    /\ period = NoPeriod
    /\ periods_seen = {}
    /\ \E has_current \in BOOLEAN, spent \in [EnvelopeIds -> SpendSpent] :
          /\ sahod_pay_cycle_instances =
                IF has_current
                THEN {[EndedInstance EXCEPT !.rollover_processed = TRUE],
                      CurrentInstance(FALSE)}
                ELSE {EndedInstance}
          /\ next_instance_id = IF has_current THEN 3 ELSE 2
          /\ sahod_allocations =
                {FundedRow(e, 1, e, 0, spent[e]) : e \in EnvelopeIds} \cup
                (IF has_current
                 THEN {FundedRow(2 + e, 2, e, 0, spent[e]) : e \in EnvelopeIds}
                 ELSE {})
    /\ sahod_envelopes = [e \in EnvelopeIds |-> [is_rollover |-> TRUE, cookie_jar |-> 0]]
    /\ next_allocation_id = 5
    /\ kaban_transactions = {}
    /\ next_tx_id = 1
    /\ recurring_rules = <<>>
    /\ workers = [w \in Workers |-> Idle]
    /\ response = NoResponse

CalculateSafeDailySpend ==
    /\ \E remaining_budget \in Budgets, days_left \in DayCounts, half_up \in BOOLEAN :
          response' = [op |-> "calculate_safe_daily_spend",
                       remaining_budget |-> remaining_budget,
                       days_left |-> days_left,
                       safe_daily_spend |->
                          calculate_safe_daily_spend(remaining_budget, days_left, half_up)]
    /\ UNCHANGED <<today, calcVars, cycleVars, budgetVars, ledgerVars, recurVars>>

GetDashboard == \E half_up \in BOOLEAN : get_dashboard(half_up)

NextSpend ==
    \/ CalculateSafeDailySpend
    \/ GetDashboard

SpecSpend == InitSpend /\ [][NextSpend]_vars

(***************************************************************************)
(* Claims                                                                  *)
(***************************************************************************)

\* C5: for every monthly pay day 1..31, every bimonthly pair and every
\* reference date, the period get_period_for_date returns contains the date.
C5_PeriodContainsDate ==
    period # NoPeriod =>
        /\ IsPeriod(period)
        /\ period.period_start <= today
        /\ today <= period.period_end

\* two periods are the same range or share no day
SameOrDisjoint(p, q) ==
    \/ (p.period_start = q.period_start /\ p.period_end = q.period_end)
    \/ p.period_end < q.period_start
    \/ q.period_end < p.period_start

\* C6: the periods returned for the dates of a year form a contiguous,
\* non-overlapping sequence: the period returned for a date is identical to or
\* disjoint from every period returned before, it is the first one, a repeat,
\* or starts the day after an earlier one ends, and it is never an error; a
\* monthly cycle with payDay1 = 31 has a boundary on the last day of February.
C6_PeriodsContiguous ==
    period # NoPeriod =>
        /\ IsPeriod(period)
        /\ period.period_start <= period.period_end
        /\ \A q \in periods_seen : IsPeriod(q) /\ SameOrDisjoint(period, q)
        /\ \/ periods_seen = {period}
           \/ \E q \in periods_seen :
                 /\ q.period_start < period.period_start
                 /\ NextDay(q.period_end) = period.period_start
        /\ (/\ pay_cycle.frequency = "monthly"
            /\ pay_cycle.pay_day_1 = 31
            /\ Month(today) = 3
            /\ Day(today) < 31)
              => period.period_start =
                    MkDate(Year(today), 2, DaysInMonth(Year(today), 2))

\* C6 witness: a monthly cycle with pay day 31 was evaluated through February
\* and into March, and the year's evaluation reached December.
C6_Witness ==
    /\ pay_cycle.frequency = "monthly"
    /\ pay_cycle.pay_day_1 = 31
    /\ today = MkDate(Year(today), 12, 31)
    /\ period # NoPeriod
    /\ Cardinality(periods_seen) >= 12
    /\ \E p \in periods_seen :
          p.period_start = MkDate(Year(today), 2, DaysInMonth(Year(today), 2))

\* the row of the instance a response names
InstanceById(id) == CHOOSE i \in sahod_pay_cycle_instances : i.id = id

\* C3: get_current_instance is idempotent: a call that directly follows a
\* successful call, with the same date and schedule, returns the same instance
\* id and creates no instance.
C3_GetCurrentIdempotent ==
    [][(/\ response.op = "get_current_instance"
        /\ response.status = "ok"
        /\ response'.op = "get_current_instance"
        /\ today' = today
        /\ pay_cycle' = pay_cycle)
          => /\ response'.status = "ok"
             /\ response'.instance_id = response.instance_id
             /\ sahod_pay_cycle_instances' = sahod_pay_cycle_instances]_vars

\* C4: the period instances of the pay cycle have pairwise non-overlapping
\* [period_start, period_end] ranges.
C4_InstancesDisjoint ==
    \A i, j \in sahod_pay_cycle_instances :
        i.id # j.id => (i.period_end < j.period_start \/ j.period_end < i.period_start)

\* a step that edits pay_day_1 of the existing pay cycle
EditsPayDay1 == pay_cycle # NoCycle /\ pay_cycle'.pay_day_1 # pay_cycle.pay_day_1

\* C8: an edit of pay_day_1 removes every unconfirmed instance and keeps every
\* confirmed row as it is; no step deletes a confirmed instance or changes its
\* period_start or period_end; and a get_current_instance made while no
\* confirmed instance covers today returns an instance whose boundaries are
\* the ones computed from the schedule as it now stands.
C8_EditInvalidatesUnconfirmed ==
    /\ [][EditsPayDay1 =>
            \A i \in sahod_pay_cycle_instances :
                IF Unconfirmed(i)
                THEN \A j \in sahod_pay_cycle_instances' : j.id # i.id
                ELSE i \in sahod_pay_cycle_instances']_vars
    /\ [][\A i \in sahod_pay_cycle_instances :
            ~i.is_assumed =>
                \E j \in sahod_pay_cycle_instances' :
                    /\ j.id = i.id
                    /\ j.period_start = i.period_start
                    /\ j.period_end = i.period_end]_vars
    /\ [][(/\ response'.op = "get_current_instance"
            /\ response'.status = "ok"
            /\ \A i \in ContainingToday(sahod_pay_cycle_instances) : i.is_assumed)
              => \E j \in sahod_pay_cycle_instances' :
                    /\ j.id = response'.instance_id
                    /\ j.period_start = CurrentPeriod.period_start
                    /\ j.period_end = CurrentPeriod.period_end]_vars

\* C8 witness: instance 1 was deleted while unconfirmed, the lookup after the
\* edit created instance 2 with fresh boundaries, instance 2 was confirmed and
\* the schedule was edited again, leaving its stored range as it was.
C8_Witness ==
    /\ \A i \in sahod_pay_cycle_instances : i.id # 1
    /\ \E i \in sahod_pay_cycle_instances :
          /\ i.id = 2
          /\ ~i.is_assumed
          /\ i.period_start <= today
          /\ today <= i.period_end
          /\ i.period_start # CurrentPeriod.period_start
    /\ response.op = "get_current_instance"
    /\ response.status = "ok"
    /\ response.instance_id = 2

\* C9: confirming an already-confirmed instance is a no-op: the instance stays
\* confirmed, its actual_amount and confirmed_at keep the values of the first
\* confirmation, and no instance is created.
C9_ReconfirmIsNoOp ==
    [][\A i \in sahod_pay_cycle_instances :
          ~i.is_assumed =>
              \E j \in sahod_pay_cycle_instances' :
                  /\ j.id = i.id
                  /\ ~j.is_assumed
                  /\ j.actual_amount = i.actual_amount
                  /\ j.confirmed_at = i.confirmed_at]_vars

\* C10: the ledger holds at most one income entry linked to an instance.
C10_OneIncomePerInstance ==
    \A id \in 1..MaxInstances :
        Cardinality(ExistingIncome(kaban_transactions, id)) <= 1

\* the ledger rows a rule posted for a date
PostedFor(txs, rule_id, scheduled_date) ==
    {t \in txs : t.recurring_rule_id = rule_id /\ t.transaction_date = scheduled_date}

\* C1: with one reconciliation at a time, no (rule id, transaction date) pair
\* has two ledger entries; a reconciliation leaves exactly one entry for every
\* due scheduled date of every active rule; and a reconciliation that directly
\* follows one, with the same rules and date, inserts no entry.
C1_ReconcileTwicePostsOnce ==
    /\ [](\A t, u \in kaban_transactions :
            (/\ t.recurring_rule_id # Null
             /\ t.recurring_rule_id = u.recurring_rule_id
             /\ t.transaction_date = u.transaction_date) => t.id = u.id)
    /\ [][response'.op = "get_kaban_transactions" =>
            \A n \in DOMAIN recurring_rules :
                recurring_rules[n].is_active =>
                    \A k \in DOMAIN DueDates(recurring_rules[n], today) :
                        Cardinality(PostedFor(kaban_transactions', n,
                                              DueDates(recurring_rules[n], today)[k])) = 1]_vars
    /\ [][(/\ response.op = "get_kaban_transactions"
           /\ response'.op = "get_kaban_transactions")
            => /\ response'.inserted = 0
               /\ kaban_transactions' = kaban_transactions]_vars

\* C1 witness: a read of the ledger inserted nothing although a rule has an
\* entry dated after its last_posted_date, so only the existence query kept
\* the run from posting that date again.
C1_Witness ==
    /\ response.op = "get_kaban_transactions"
    /\ response.inserted = 0
    /\ \E n \in DOMAIN recurring_rules :
          /\ recurring_rules[n].is_active
          /\ recurring_rules[n].last_posted_date # Null
          /\ \E t \in kaban_transactions :
                /\ t.recurring_rule_id = n
                /\ t.transaction_date > recurring_rules[n].last_posted_date
                /\ t.transaction_date <= today

\* C2: with the reads of the ledger interleaved at each store call, at most
\* one ledger entry exists for any (rule id, scheduled date).
C2_AtMostOneEntryPerDate ==
    \A t \in kaban_transactions :
        t.recurring_rule_id # Null =>
            Cardinality(PostedFor(kaban_transactions, t.recurring_rule_id,
                                  t.transaction_date)) <= 1

\* C7: process_completed_period_rollover called on an instance whose
\* rollover_processed flag is already true returns before the allocations are
\* read and leaves every envelope's cookie_jar, and the instance, as they were.
C7_ProcessedRolloverIsNoOp ==
    [][(/\ response'.op = "process_completed_period_rollover"
        /\ \E i \in sahod_pay_cycle_instances :
              i.id = response'.instance_id /\ i.rollover_processed)
          => /\ ~response'.allocations_read
             /\ sahod_pay_cycle_instances' = sahod_pay_cycle_instances
             /\ \A e \in DOMAIN sahod_envelopes :
                   sahod_envelopes'[e].cookie_jar = sahod_envelopes[e].cookie_jar]_vars

\* C7 witness: the helper returned early on a processed instance that still
\* has a positive remainder on a rollover envelope.
C7_Witness ==
    /\ response.op = "process_completed_period_rollover"
    /\ ~response.allocations_read
    /\ \E i \in sahod_pay_cycle_instances :
          i.id = response.instance_id /\ i.rollover_processed
    /\ \E a \in sahod_allocations :
          /\ a.pay_cycle_instance_id = response.instance_id
          /\ Remaining(a) > 0
          /\ sahod_envelopes[a.envelope_id].is_rollover
          /\ sahod_envelopes[a.envelope_id].cookie_jar > 0


\* the allocation row with an id, and whether its owning instance is confirmed
AllocationById(allocs, id) == CHOOSE a \in allocs : a.id = id

OwnerConfirmed(alloc) ==
    \E i \in sahod_pay_cycle_instances :
        i.id = alloc.pay_cycle_instance_id /\ i.confirmed_at # Null

CurrentAllocations(envelope_id) ==
    {a \in sahod_allocations :
        /\ a.envelope_id = envelope_id
        /\ \E i \in sahod_pay_cycle_instances :
              /\ i.id = a.pay_cycle_instance_id
              /\ i.period_start <= today
              /\ today <= i.period_end}

\* C12: a use_from_cookie_jar that fails changes no cookie_jar and no
\* rollover_amount; a valid request for more than the envelope's cookie_jar, or
\* for an envelope without an allocation in the current period instance,
\* fails; any other valid request succeeds, lowers that envelope's cookie_jar
\* by exactly the amount and raises the rollover_amount of its current
\* allocation by exactly the amount, and changes nothing else.
C12_WithdrawalMovesExactAmount ==
    /\ [][(response'.op = "use_from_cookie_jar" /\ response'.status # "ok")
            => (sahod_envelopes' = sahod_envelopes /\
                sahod_allocations' = sahod_allocations)]_vars
    /\ [][(/\ response'.op = "use_from_cookie_jar"
            /\ response'.status \in {"ok", "insufficient", "no_allocation"})
              => LET e == response'.envelope_id
                     amount == response'.amount
                     rows == CurrentAllocations(e)
                 IN  IF amount > sahod_envelopes[e].cookie_jar \/ rows = {}
                     THEN response'.status # "ok"
                     ELSE /\ response'.status = "ok"
                          /\ sahod_envelopes' =
                                [sahod_envelopes EXCEPT
                                    ![e].cookie_jar = sahod_envelopes[e].cookie_jar - amount]
                          /\ \E a \in rows :
                                sahod_allocations' =
                                    (sahod_allocations \ {a}) \cup
                                        {[a EXCEPT !.rollover_amount =
                                                        a.rollover_amount + amount]}]_vars

\* C12 witness: 150 was withdrawn from a cookie jar of 200, which now holds
\* 50, and the current allocation carries the 150 as rollover.
C12_Witness ==
    /\ response.op = "use_from_cookie_jar"
    /\ response.status = "ok"
    /\ response.amount = 150
    /\ sahod_envelopes[response.envelope_id].cookie_jar = 50
    /\ \E a \in CurrentAllocations(response.envelope_id) : a.rollover_amount = 150

\* a step in which fill_allocations reached the instance it names
FillStep ==
    /\ response'.op = "fill_allocations"
    /\ response'.status \in {"ok", "error"}

\* the allocations of an instance, by id
InstanceAllocations(allocs, instance_id) ==
    {a \in allocs : a.pay_cycle_instance_id = instance_id}

\* C15: a fill_allocations on an instance that is already confirmed is not
\* carried out: the allocations of that instance stay as they were.
C15_FillOnlyWhileUnconfirmed ==
    [][(/\ FillStep
        /\ \E i \in sahod_pay_cycle_instances :
              i.id = response'.instance_id /\ i.confirmed_at # Null)
          => InstanceAllocations(sahod_allocations', response'.instance_id) =
                InstanceAllocations(sahod_allocations, response'.instance_id)]_vars

\* the rows match the provided list: one row per item, with its envelope and
\* its amount
IsFullList(rows, items) ==
    /\ Cardinality(rows) = Len(items)
    /\ \A k \in 1..Len(items) :
          \E a \in rows : /\ a.envelope_id = items[k].envelope_id
                          /\ a.allocated_amount = items[k].allocated_amount

\* C16: after a fill_allocations, failed part-way or not, the allocation set
\* of the instance is exactly the set before the call or exactly the full
\* provided list.
C16_FillAllOrNone ==
    [][FillStep =>
          LET before == InstanceAllocations(sahod_allocations, response'.instance_id)
              after == InstanceAllocations(sahod_allocations', response'.instance_id)
          IN  after = before \/ IsFullList(after, response'.requested)]_vars

\* the instance with the latest period_start before that of the given one
Preceding(instance) ==
    {i \in sahod_pay_cycle_instances :
        /\ i.period_start < instance.period_start
        /\ \A j \in sahod_pay_cycle_instances :
              j.period_start < instance.period_start => j.period_start <= i.period_start}

\* what is left of an envelope's allocation in the preceding instance
CarriedOver(instance, envelope_id) ==
    {(p.allocated_amount + p.rollover_amount) - p.cached_spent :
        p \in {a \in sahod_allocations :
                  /\ a.envelope_id = envelope_id
                  /\ \E i \in Preceding(instance) : a.pay_cycle_instance_id = i.id}}

\* C17: every allocation created by fill_allocations has a rollover_amount
\* that is never negative; for an envelope with is_rollover it is
\* max(0, (allocated + rollover) - spent) of the same envelope's allocation in
\* the immediately preceding instance, and 0 when there is no such instance or
\* allocation; for an envelope without is_rollover it is 0.
C17_RolloverInFormula ==
    [][FillStep =>
          \A a \in sahod_allocations' \ sahod_allocations :
              LET instance == InstanceById(a.pay_cycle_instance_id)
                  carried == CarriedOver(instance, a.envelope_id)
              IN  /\ a.rollover_amount >= 0
                  /\ IF sahod_envelopes[a.envelope_id].is_rollover /\ carried # {}
                     THEN \E remaining \in carried :
                             a.rollover_amount =
                                IF remaining >= 0 THEN remaining ELSE 0
                     ELSE a.rollover_amount = 0]_vars

\* C17 witness: a fill has created the allocation of a rollover envelope whose
\* allocation in the preceding instance (1000 allocated, 100 rolled in, 700
\* spent) had 400 left, and carries 400.
C17_Witness ==
    /\ response.op = "fill_allocations"
    /\ response.status = "ok"
    /\ \E a \in sahod_allocations :
          /\ a.id >= response.first_id
          /\ a.pay_cycle_instance_id = response.instance_id
          /\ sahod_envelopes[a.envelope_id].is_rollover
          /\ a.rollover_amount = 400
          /\ a.cached_spent = 0

\* what an envelope still holds in an instance: (allocated + rollover) - spent
\* of its allocation there, 0 without one
Held(instance_id, envelope_id) ==
    LET rows == {a \in sahod_allocations :
                    a.envelope_id = envelope_id /\ a.pay_cycle_instance_id = instance_id}
    IN  IF rows = {} THEN 0
        ELSE LET a == CHOOSE row \in rows : TRUE
             IN  (a.allocated_amount + a.rollover_amount) - a.cached_spent

\* C13: the safe daily spend, computed directly or by the dashboard from the
\* summed remaining of the current instance's allocations and the days left
\* in it, is never negative; it is 0 when days_left <= 0 or remaining <= 0;
\* otherwise it is remaining / days_left to the nearest centavo; no input
\* divides by zero.  (0, 5) and (500.00, 0) give 0 and (1000.00, 4) gives
\* 250.00.
C13_SafeDailySpend ==
    response.op \in {"calculate_safe_daily_spend", "get_dashboard"} /\
    "safe_daily_spend" \in DOMAIN response
      => LET remaining == response.remaining_budget
             days == response.days_left
             spend == response.safe_daily_spend
         IN  /\ spend >= 0
             /\ (days <= 0 \/ remaining <= 0) => spend = 0
             /\ (days > 0 /\ remaining > 0) =>
                    /\ 2 * (spend * days - remaining) <= days
                    /\ 2 * (remaining - spend * days) <= days
             /\ (remaining = 100000 /\ days = 4) => spend = 25000
             /\ response.op = "get_dashboard" =>
                    /\ days >= 0
                    /\ \E i \in sahod_pay_cycle_instances :
                          /\ i.id = response.instance_id
                          /\ i.period_end >= today => days >= 1
                    /\ remaining = Held(response.instance_id, 1) +
                                   Held(response.instance_id, 2)

\* C13 witness: the dashboard of a period with 3 days left and 800 remaining
\* over its envelopes answered 267, the quotient rounded up.
C13_Witness ==
    /\ response.op = "get_dashboard"
    /\ response.status = "ok"
    /\ response.remaining_budget = 800
    /\ response.days_left = 3
    /\ response.safe_daily_spend = 267

\* C14: every write of a rule's last_posted_date sets it to a date greater
\* than or equal to the value it had, also among the writes of one
\* reconciliation over the current and the previous month.
C14_LastPostedOnlyAdvances ==
    [][\A k \in DOMAIN recurring_rules :
          k \in DOMAIN recurring_rules' =>
              recurring_rules'[k].last_posted_date >= recurring_rules[k].last_posted_date]_vars

\* C18: when a call to the store fails for one rule during a reconciliation,
\* every due date of every other active rule has its ledger entry when the
\* run ends.
C18_OtherRulesStillPosted ==
    [][(response'.op = "get_kaban_transactions" /\ "failed_rule" \in DOMAIN response')
          => \A k \in DOMAIN recurring_rules :
                (k # response'.failed_rule /\ recurring_rules[k].is_active) =>
                    \A n \in 1..Len(DueDates(recurring_rules[k], today)) :
                        \E t \in kaban_transactions' :
                            /\ t.recurring_rule_id = k
                            /\ t.transaction_date =
                                  DueDates(recurring_rules[k], today)[n]]_vars

\* C19: with confirmations of one instance in flight together and interleaved
\* at the calls to the store, the result is that of the calls made one after
\* the other: at most one income entry of the ledger is linked to the
\* instance, and once no call is in flight an instance with an income entry
\* is confirmed.
C19_ConcurrentConfirmSerializable ==
    \A i \in sahod_pay_cycle_instances :
        LET income == {t \in kaban_transactions :
                          t.sahod_instance_id = i.id /\ t.transaction_type = "income"}
        IN  /\ Cardinality(income) <= 1
            /\ (income # {} /\ \A w \in Workers : workers[w].pc = "idle")
                  => (~i.is_assumed /\ i.confirmed_at # Null)

\* C20: with withdrawals from one cookie jar in flight together, the values
\* left when no call is in flight are those of the withdrawals made one after
\* the other: every amount taken from the jar was added once to the
\* rollover_amount of the current allocation, so the two together hold what
\* the jar held at the start, and the jar is not negative.
C20_ConcurrentJarSerializable ==
    (\A w \in Workers : workers[w].pc = "idle") =>
        \A e \in EnvelopeIds :
            /\ sahod_envelopes[e].cookie_jar >= 0
            /\ \A a \in CurrentAllocations(e) :
                  sahod_envelopes[e].cookie_jar + a.rollover_amount \in
                      IF e = 1 THEN AllocJarValues ELSE {0}

(***************************************************************************)
(* SpecSchedule: the set-up and edit forms with every frequency the        *)
(* request models name, followed by reads of the current instance.         *)
(***************************************************************************)
\* pay_day_of_week of a weekly request (0 is a falsy value the check refuses)
WeekDays == {5}

\* frequency, pay_day_1, pay_day_2, pay_day_of_week
AnySchedules ==
    {<<s[1], s[2], s[3], Null>> : s \in FormSchedules}
        \cup {<<"weekly", Null, Null, d>> : d \in WeekDays}

CreateAnyPayCycle ==
    \E s \in AnySchedules, a \in ExpectedAmounts :
        create_pay_cycle(s[1], s[2], s[3], s[4], a)

UpdateAnyPayCycle ==
    \E s \in AnySchedules : update_pay_cycle(s[1], s[2], s[3])

NextSchedule ==
    \/ AdvanceDay
    \/ CreateAnyPayCycle
    \/ UpdateAnyPayCycle
    \/ GetCurrentInstance

SpecSchedule == Init /\ [][NextSchedule]_vars

\* C21: a schedule the period calculator does not support is refused when it
\* is set up or edited, so no stored pay cycle makes a later
\* get_current_instance fail with the unsupported-schedule error.
C21_UnsupportedSurfacedAtSetup ==
    ~(/\ response.op = "get_current_instance"
      /\ response.status = "error"
      /\ CurrentPeriod = UnsupportedSchedule)

(***************************************************************************)
(* SpecBestEffort: the side effects that run inside another operation --   *)
(* the rollover inside get_current_instance, the income entry inside       *)
(* confirm_instance, the reconciliation inside get_kaban_transactions --   *)
(* with a call to the store that raises part-way through them.             *)
(***************************************************************************)
\* an error that leaves the side effect and ends the request
ErrorRaised(error) == error

\* "except Exception as e: logger.exception(...)  # Don't raise"
ErrorPropagates(error) == FALSE

\* the envelopes whose cookie_jar the loop of the rollover helper writes
JarWrites(envs, allocs, completed_instance_id) ==
    {a.envelope_id : a \in {b \in AllocationsOf(allocs, completed_instance_id) :
                              envs[b.envelope_id].is_rollover /\ Remaining(b) > 0}}

\* the store after process_completed_period_rollover when a call to the store
\* raises after the cookie jars of `written` were updated: the instance is
\* not marked (the update of rollover_processed is the last call)
failed_rollover(insts, envs, allocs, completed_instance_id, written) ==
    LET rows == AllocationsOf(allocs, completed_instance_id)
    IN  [instances |-> insts,
         envelopes |-> [e \in DOMAIN envs |->
                          IF e \in written
                          THEN [envs[e] EXCEPT !.cookie_jar = RolledJar(envs, rows, e)]
                          ELSE envs[e]]]

\* get_current_instance when the rollover helper it calls hits an error
GetCurrentInstanceRolloverError ==
    /\ pay_cycle # NoCycle
    /\ IsPeriod(CurrentPeriod)
    /\ ContainingToday(sahod_pay_cycle_instances) = {}
    /\ next_instance_id <= MaxInstances
    /\ \E last_period \in LastCompleted(sahod_pay_cycle_instances) :
         /\ ~last_period.rollover_processed
         /\ \E written \in SUBSET JarWrites(sahod_envelopes, sahod_allocations,
                                            last_period.id) :
              LET after == failed_rollover(sahod_pay_cycle_instances, sahod_envelopes,
                                           sahod_allocations, last_period.id, written)
              IN  /\ sahod_envelopes' = after.envelopes
                  /\ IF ErrorPropagates(TRUE)
                     THEN /\ sahod_pay_cycle_instances' = after.instances
                          /\ UNCHANGED next_instance_id
                          /\ response' = [op |-> "get_current_instance",
                                          status |-> "error"]
                     ELSE /\ sahod_pay_cycle_instances' = after.instances \cup
                                {NewInstance(next_instance_id, CurrentPeriod)}
                          /\ next_instance_id' = next_instance_id + 1
                          /\ response' = Returned(next_instance_id, TRUE)
    /\ UNCHANGED <<today, calcVars, recurVars, pay_cycle, sahod_allocations,
                   next_allocation_id, ledgerVars>>

\* confirm_instance on its normal flow when a call of the block that creates
\* the income entry raises: the instance was updated before the block
ConfirmInstanceIncomeError ==
    \E instance \in sahod_pay_cycle_instances, actual_amount \in ActualAmounts,
       candidate_action \in {NoAction, "skip"} :
        LET amount == ActualAmount(instance, actual_amount)
        IN  /\ ~(/\ candidate_action = NoAction
                 /\ SalaryCategoryExists
                 /\ Candidates(kaban_transactions, instance, amount) # {})
            /\ sahod_pay_cycle_instances' =
                  ConfirmRow(sahod_pay_cycle_instances, instance, amount)
            /\ response' = IF ErrorPropagates(TRUE)
                           THEN [op |-> "confirm_instance", status |-> "error",
                                 instance_id |-> instance.id]
                           ELSE ConfirmedResponse(instance.id)
            /\ UNCHANGED <<today, calcVars, recurVars, pay_cycle, next_instance_id,
                           budgetVars, ledgerVars>>

InitBestEffort ==
    /\ InitRollover
    /\ \A e \in EnvelopeIds : sahod_envelopes[e].cookie_jar = 0

\* a rule that falls due on the day of the requests
CreateDueRule ==
    \E a \in RuleAmounts : create_recurring_rule(a, "bimonthly", Day(today))

NextBestEffort ==
    \/ GetCurrentInstanceRolloverError
    \/ ConfirmInstanceIncomeError
    \/ CreateDueRule
    \/ GetKabanTransactionsStoreError

SpecBestEffort == InitBestEffort /\ [][NextBestEffort]_vars

\* C22: an error inside a best-effort side effect does not fail the operation
\* that set it off.  When the rollover helper fails, get_current_instance
\* still creates and returns the instance of the new period; when the income
\* entry fails, confirm_instance still answers with the confirmed instance;
\* when the reconciliation fails, get_kaban_transactions still answers with
\* the ledger.
C22_BestEffortNeverFailsCaller ==
    [][/\ GetCurrentInstanceRolloverError =>
            /\ response'.status = "ok"
            /\ response'.created
            /\ \E i \in ContainingToday(sahod_pay_cycle_instances') :
                   i.id = response'.instance_id /\ i.is_assumed
       /\ ConfirmInstanceIncomeError =>
            /\ response'.status = "confirmed"
            /\ \E i \in sahod_pay_cycle_instances' :
                   /\ i.id = response'.instance_id
                   /\ ~i.is_assumed /\ i.confirmed_at = today
       /\ GetKabanTransactionsStoreError =>
            /\ response'.op = "get_kaban_transactions"
            /\ "status" \notin DOMAIN response'
            /\ kaban_transactions \subseteq kaban_transactions']_vars

\* the rollover helper stopped before marking the ended period -- one jar
\* written, one not -- and the instance of the new period was returned
C22_Witness ==
    /\ response = Returned(2, TRUE)
    /\ \E i \in sahod_pay_cycle_instances : i.id = 1 /\ ~i.rollover_processed
    /\ sahod_envelopes[1].cookie_jar > 0
    /\ sahod_envelopes[2].cookie_jar = 0
    /\ 2 \in JarWrites(sahod_envelopes, sahod_allocations, 1)

(***************************************************************************)
(* SpecCookieJar: a confirmed period has ended; its remainders reach the   *)
(* cookie jars through the lookup that opens the next period and through   *)
(* the process-rollover endpoint, the next period is filled, and the jars  *)
(* are drawn on.                                                           *)
(***************************************************************************)
\* the largest cookie_jar and rollover_amount at which process-rollover is
\* still called
MaxJar == 150

\* POST /allocations/process-rollover: the most recent completed period, its
\* allocations joined with their envelopes, one cookie_jar write per row with
\* a positive remainder; rollover_processed is neither read nor written
process_rollover ==
    /\ UNCHANGED <<today, calcVars, recurVars, cycleVars, ledgerVars,
                   sahod_allocations, next_allocation_id>>
    /\ IF LastCompleted(sahod_pay_cycle_instances) = {}
       THEN /\ response' = [op |-> "process_rollover", processed |-> 0]
            /\ UNCHANGED sahod_envelopes
       ELSE \E instance \in LastCompleted(sahod_pay_cycle_instances) :
              LET rows == AllocationsOf(sahod_allocations, instance.id)
                  added == {a \in rows : sahod_envelopes[a.envelope_id].is_rollover
                                            /\ Remaining(a) > 0}
              IN  /\ sahod_envelopes' =
                        [e \in DOMAIN sahod_envelopes |->
                            [sahod_envelopes[e] EXCEPT
                                !.cookie_jar = RolledJar(sahod_envelopes, rows, e)]]
                  /\ response' = [op |-> "process_rollover",
                                  instance_id |-> instance.id,
                                  processed |-> Cardinality(added)]

ProcessRollover ==
    /\ \A e \in DOMAIN sahod_envelopes : sahod_envelopes[e].cookie_jar <= MaxJar
    /\ \A a \in sahod_allocations : a.rollover_amount <= MaxJar
    /\ process_rollover

\* the fill form sent for the period that holds today
FillCurrent ==
    \E instance \in ContainingToday(sahod_pay_cycle_instances), items \in FillLists :
        /\ next_allocation_id + Len(items) - 1 <= MaxAllocationId
        /\ fill_allocations(instance.id, items, Null)

\* a withdrawal by a PRO user
Withdraw ==
    \E e \in EnvelopeIds, amount \in WithdrawAmounts :
        use_from_cookie_jar("pro", e, amount)

InitCookieJar ==
    /\ InitRollover
    /\ sahod_envelopes[2].cookie_jar = 0

NextCookieJar ==
    \/ GetCurrentInstance
    \/ ProcessRollover
    \/ FillCurrent
    \/ Withdraw

SpecCookieJar == InitCookieJar /\ [][NextCookieJar]_vars

\* the rows of envelope e in periods that have ended
EndedRows(e) ==
    {a \in sahod_allocations :
        /\ a.envelope_id = e
        /\ \E i \in sahod_pay_cycle_instances :
              i.id = a.pay_cycle_instance_id /\ i.period_end < today}

\* a step of the rollover, by the lookup or by the endpoint
RolloverStep == response'.op \in {"get_current_instance", "process_rollover"}

\* C23: over any sequence of rollover processing and withdrawals no cookie
\* jar is negative; rollover processing never lowers a jar, and it leaves
\* the jar as it was when the envelope's remainder is zero or negative.
C23_JarNeverNegative ==
    [][\A e \in EnvelopeIds :
          /\ sahod_envelopes'[e].cookie_jar >= 0
          /\ RolloverStep =>
                /\ sahod_envelopes'[e].cookie_jar >= sahod_envelopes[e].cookie_jar
                /\ (\A a \in EndedRows(e) : Remaining(a) <= 0) =>
                      sahod_envelopes'[e].cookie_jar = sahod_envelopes[e].cookie_jar]_vars

\* a jar was fed by the rollover of an overspent and an underspent envelope
\* and then emptied by a withdrawal
C23_Witness ==
    /\ response.op = "use_from_cookie_jar"
    /\ response.status = "ok"
    /\ response.amount > 0
    /\ sahod_envelopes[response.envelope_id].cookie_jar = 0
    /\ \E e \in EnvelopeIds : \E a \in EndedRows(e) :
          Remaining(a) < 0 /\ sahod_envelopes[e].is_rollover

(***************************************************************************)
(* SpecLate: two periods have ended.  The later one was confirmed in time; *)
(* the earlier one is confirmed late or not at all.  The instance of the   *)
(* period after them was either never opened or opened and then deleted by *)
(* an edit of the schedule, so the later period's rollover may be done.    *)
(***************************************************************************)
\* the period before EndedInstance, not yet confirmed
EarlierInstance ==
    [id |-> 1, expected_amount |-> 100,
     period_start |-> 20221215, period_end |-> 20230114,
     expected_pay_date |-> 20221215, payday_type |-> "single",
     is_assumed |-> TRUE, confirmed_at |-> Null, actual_amount |-> Null,
     rollover_processed |-> FALSE]

\* the store's ids are opaque: their order is not the order of the periods
LaterInstance(processed) ==
    [EndedInstance EXCEPT !.id = MaxInstances + 1, !.rollover_processed = processed]

InitLate ==
    /\ today = NextDay(EndedInstance.period_end)
    /\ pay_cycle = [frequency |-> "monthly", pay_day_1 |-> 15, pay_day_2 |-> Null,
                    expected_amount |-> 100]
    /\ period = NoPeriod
    /\ periods_seen = {}
    /\ \E processed \in BOOLEAN :
          sahod_pay_cycle_instances = {EarlierInstance, LaterInstance(processed)}
    /\ next_instance_id = 2
    /\ sahod_envelopes \in [EnvelopeIds -> [is_rollover : BOOLEAN, cookie_jar : {0}]]
    /\ \E funded \in SUBSET EnvelopeIds :
         \E spent \in [funded -> SpentValues] :
            sahod_allocations =
                {[AllocationRow(e, spent[e]) EXCEPT
                     !.pay_cycle_instance_id = EarlierInstance.id] : e \in funded}
    /\ next_allocation_id = 3
    /\ kaban_transactions = {}
    /\ next_tx_id = 1
    /\ recurring_rules = <<>>
    /\ workers = [w \in Workers |-> Idle]
    /\ response = NoResponse

NextLate ==
    \/ ConfirmInstance
    \/ GetCurrentInstance

SpecLate == InitLate /\ [][NextLate]_vars

\* the confirmed periods that have ended and whose rollover is still to do
RolloverPending(insts) ==
    {i \in insts : i.period_end < today /\ ~i.is_assumed /\ ~i.rollover_processed}

\* C24: when get_current_instance finds no instance for today it runs the
\* rollover for the most recent confirmed period that has ended and is not
\* yet processed -- also when a later ended period is already processed or
\* the period was confirmed late -- and then creates the new instance with
\* is_assumed = true.
C24_UnprocessedPeriodPickedUp ==
    [][(response'.op = "get_current_instance" /\ response'.status = "ok"
            /\ response'.created) =>
          /\ \E n \in sahod_pay_cycle_instances' :
                n.id = response'.instance_id /\ n.is_assumed
          /\ \A i \in RolloverPending(sahod_pay_cycle_instances) :
                ((\A j \in RolloverPending(sahod_pay_cycle_instances) :
                        j.period_end <= i.period_end)
                    /\ AllocationsOf(sahod_allocations, i.id) # {})
                => \E k \in sahod_pay_cycle_instances' :
                        k.id = i.id /\ k.rollover_processed]_vars

(***************************************************************************)
(* SpecRecurPause: rules are created, paused and resumed, and the ledger   *)
(* is read, one request at a time, over advancing dates.                   *)
(***************************************************************************)
\* PATCH /kaban/recurring/{rule_id}/pause: is_active becomes its negation
toggle_recurring_rule_pause(rule_id) ==
    /\ rule_id \in DOMAIN recurring_rules
    /\ recurring_rules' =
          [recurring_rules EXCEPT ![rule_id].is_active = ~recurring_rules[rule_id].is_active]
    /\ response' = [op |-> "toggle_recurring_rule_pause", rule_id |-> rule_id,
                    is_active |-> ~recurring_rules[rule_id].is_active]
    /\ UNCHANGED <<today, calcVars, cycleVars, budgetVars, ledgerVars, workers>>

ToggleRecurringRulePause ==
    \E rule_id \in 1..MaxRules : toggle_recurring_rule_pause(rule_id)

NextRecurPause ==
    \/ AdvanceReconcileDay
    \/ CreateRecurringRule
    \/ ToggleRecurringRulePause
    \/ GetKabanTransactions

SpecRecurPause == InitRecur /\ [][NextRecurPause]_vars

\* the scheduled dates of a rule in the month of day and the month before
ScheduledAround(rule, day) ==
    LET months == months_to_check(day)
        dates == get_scheduled_dates_for_rule(rule, months[1][2], months[1][1]) \o
                 get_scheduled_dates_for_rule(rule, months[2][2], months[2][1])
    IN  {dates[k] : k \in 1..Len(dates)}

\* C25: every entry the reconciliation inserts is dated on a scheduled date
\* of its rule in the current or the previous month, not after today, not
\* before the rule was created and after the last_posted_date the rule had
\* when the run started; none is inserted for a rule that is not active.
C25_InsertedEntriesAreDue ==
    [][\A t \in kaban_transactions' \ kaban_transactions :
          t.source = "recurring" =>
            /\ t.recurring_rule_id \in DOMAIN recurring_rules
            /\ LET rule == recurring_rules[t.recurring_rule_id]
               IN  /\ rule.is_active
                   /\ t.transaction_date \in ScheduledAround(rule, today)
                   /\ t.transaction_date <= today
                   /\ t.transaction_date >= rule.created_at
                   /\ rule.last_posted_date # Null =>
                         t.transaction_date > rule.last_posted_date]_vars

\* a read of the ledger posted an entry for one rule and none for a paused
\* rule that has a scheduled date between its creation and today
C25_Witness ==
    /\ response.op = "get_kaban_transactions"
    /\ response.inserted > 0
    /\ \E n \in DOMAIN recurring_rules :
          /\ ~recurring_rules[n].is_active
          /\ recurring_rules[n].last_posted_date = Null
          /\ \E d \in ScheduledAround(recurring_rules[n], today) :
                d <= today /\ d >= recurring_rules[n].created_at
          /\ \A t \in kaban_transactions : t.recurring_rule_id # n

\* income entries of the ledger that a confirmation of the instance for the
\* amount would offer: salary income, not linked, dated within 2 days of the
\* start of the period, of an amount within 10% of the confirmed one
Offered(instance, amount) ==
    {t \in kaban_transactions :
        /\ t.transaction_type = "income" /\ t.category = "salary"
        /\ t.sahod_instance_id = Null
        /\ AddDays(instance.period_start, -2) <= t.transaction_date
        /\ t.transaction_date <= AddDays(instance.period_start, 2)
        /\ 9 * amount <= 10 * t.amount /\ 10 * t.amount <= 11 * amount}

\* C26: the preview of a confirmation writes nothing.  A confirm_instance
\* call without candidate_action that finds an unlinked income entry within
\* the tolerances answers with the candidate and leaves the instance and the
\* ledger as they were; while such an entry is there, the instance becomes
\* confirmed only by a call with candidate_action 'link' or 'skip'.
C26_PreviewWritesNothing ==
    [][\A i \in sahod_pay_cycle_instances, a \in ActualAmounts :
          Offered(i, ActualAmount(i, a)) # {} =>
            /\ confirm_instance(i.id, a, NoAction, Null) =>
                  /\ response'.status = "candidate_found"
                  /\ response'.candidate \in
                        {t.id : t \in Offered(i, ActualAmount(i, a))}
                  /\ UNCHANGED <<sahod_pay_cycle_instances, ledgerVars>>
            /\ (/\ i.is_assumed
                /\ \E j \in sahod_pay_cycle_instances' :
                      /\ j.id = i.id /\ ~j.is_assumed
                      /\ j.actual_amount = ActualAmount(i, a))
                  => \E c \in ConfirmChoices \ {<<NoAction, Null>>} :
                        confirm_instance(i.id, a, c[1], c[2])]_vars

\* a preview was answered with a candidate for an instance not yet confirmed
C26_Witness ==
    /\ response.op = "confirm_instance"
    /\ response.status = "candidate_found"
    /\ \E i \in sahod_pay_cycle_instances :
          /\ i.is_assumed /\ i.confirmed_at = Null
          /\ \E t \in Offered(i, i.expected_amount) : t.id = response.candidate

(***************************************************************************)
(* SpecEnvelopes: one owner's envelopes are created, edited and deleted.   *)
(* A row of sahod_envelopes carries is_active here; the store sets it on   *)
(* insert, the soft delete clears it.                                      *)
(***************************************************************************)
\* "if count_res.count and count_res.count >= 7"
MaxActiveEnvelopes == 7

\* the rows of sahod_envelopes the owner may come to have
MaxEnvelopeRows == 8

ActiveEnvelopes(envs) == {e \in DOMAIN envs : envs[e].is_active}

create_envelope(is_rollover) ==
    /\ IF Cardinality(ActiveEnvelopes(sahod_envelopes)) >= MaxActiveEnvelopes
       THEN /\ response' = Rejected("create_envelope", "limit")
            /\ UNCHANGED sahod_envelopes
       ELSE /\ sahod_envelopes' =
                  Append(sahod_envelopes, [is_rollover |-> is_rollover, cookie_jar |-> 0,
                                           is_active |-> TRUE])
            /\ response' = [op |-> "create_envelope", status |-> "ok",
                            envelope_id |-> Len(sahod_envelopes) + 1]
    /\ UNCHANGED <<today, calcVars, recurVars, cycleVars, ledgerVars,
                   sahod_allocations, next_allocation_id>>

\* update_data holds the fields the request gives; they are written as sent
update_envelope(tier, envelope_id, update_data) ==
    /\ IF "is_rollover" \in DOMAIN update_data /\ update_data.is_rollover /\ tier # "pro"
       THEN /\ response' = Rejected("update_envelope", "pro_only")
            /\ UNCHANGED sahod_envelopes
       ELSE IF envelope_id \notin DOMAIN sahod_envelopes
       THEN /\ response' = Rejected("update_envelope", "not_found")
            /\ UNCHANGED sahod_envelopes
       ELSE /\ sahod_envelopes' =
                  [sahod_envelopes EXCEPT ![envelope_id] =
                      [f \in DOMAIN @ |->
                          IF f \in DOMAIN update_data THEN update_data[f] ELSE @[f]]]
            /\ response' = [op |-> "update_envelope", status |-> "ok",
                            envelope_id |-> envelope_id, request |-> update_data]
    /\ UNCHANGED <<today, calcVars, recurVars, cycleVars, ledgerVars,
                   sahod_allocations, next_allocation_id>>

\* the soft delete; refused when the envelope's newest allocation has an
\* amount spent or allocated
delete_envelope(envelope_id) ==
    /\ LET mine == {a \in sahod_allocations : a.envelope_id = envelope_id}
           newest == {a \in mine : \A b \in mine : b.id <= a.id}
       IN  IF envelope_id \notin DOMAIN sahod_envelopes
           THEN /\ response' = Rejected("delete_envelope", "not_found")
                /\ UNCHANGED sahod_envelopes
           ELSE IF \E a \in newest : a.cached_spent > 0 \/ a.allocated_amount > 0
           THEN /\ response' = Rejected("delete_envelope", "in_use")
                /\ UNCHANGED sahod_envelopes
           ELSE /\ sahod_envelopes' =
                      [sahod_envelopes EXCEPT ![envelope_id].is_active = FALSE]
                /\ response' = [op |-> "delete_envelope", status |-> "ok",
                                envelope_id |-> envelope_id]
    /\ UNCHANGED <<today, calcVars, recurVars, cycleVars, ledgerVars,
                   sahod_allocations, next_allocation_id>>

\* the fields an edit of an envelope sends
EnvelopeUpdates ==
    {[is_active |-> TRUE], [is_active |-> FALSE], [is_rollover |-> TRUE]}

CreateEnvelope ==
    /\ Len(sahod_envelopes) < MaxEnvelopeRows
    /\ create_envelope(FALSE)

UpdateEnvelope ==
    \E e \in 1..MaxEnvelopeRows, update_data \in EnvelopeUpdates :
        update_envelope("free", e, update_data)

DeleteEnvelope ==
    \E e \in 1..MaxEnvelopeRows : delete_envelope(e)

NextEnvelopes ==
    \/ CreateEnvelope
    \/ UpdateEnvelope
    \/ DeleteEnvelope

SpecEnvelopes == Init /\ [][NextEnvelopes]_vars

\* C27: after any sequence of create_envelope, update_envelope and
\* delete_envelope calls the owner has at most 7 active envelopes.
C27_ActiveEnvelopesBounded ==
    Cardinality(ActiveEnvelopes(sahod_envelopes)) <= MaxActiveEnvelopes

(***************************************************************************)
(* SpecFillLists: the fill form with any list of items, also one that      *)
(* names an envelope twice.                                                *)
(***************************************************************************)
\* lists that name envelope 1 twice
RepeatingLists ==
    {<<[envelope_id |-> 1, allocated_amount |-> 500],
       [envelope_id |-> 1, allocated_amount |-> 400]>>}

FillAnyList ==
    \E id \in 1..MaxInstances, items \in FillLists \cup RepeatingLists :
        /\ next_allocation_id + Len(items) - 1 <= MaxAllocationId
        /\ fill_allocations(id, items, Null)

NextFillLists ==
    \/ FillAnyList
    \/ UpdateAllocation

SpecFillLists == InitAlloc /\ [][NextFillLists]_vars

\* C28: no instance holds two allocations for the same envelope, whatever
\* lists the fills were given.
C28_OneAllocationPerEnvelope ==
    \A a, b \in sahod_allocations :
        (a.pay_cycle_instance_id = b.pay_cycle_instance_id
            /\ a.envelope_id = b.envelope_id) => a.id = b.id

(***************************************************************************)
(* SpecRolloverCalls: every way the rollover of the ended period is set    *)
(* off -- the lookup that opens the next period, with and without an error *)
(* part-way, and the process-rollover endpoint, called any number of times.*)
(***************************************************************************)
NextRolloverCalls ==
    \/ GetCurrentInstance
    \/ GetCurrentInstanceRolloverError
    \/ ProcessRollover

SpecRolloverCalls == InitRollover /\ [][NextRolloverCalls]_vars

\* C29: the remainder of a completed instance is added to an envelope's
\* cookie_jar at most once, however often and by whichever path the rollover
\* is invoked: the jar is what it was at the end of the period, or that plus
\* the positive remainder of the envelope's allocation.
C29_RemainderAddedAtMostOnce ==
    \A e \in EnvelopeIds :
        \E start \in JarValues :
            \/ sahod_envelopes[e].cookie_jar = start
            \/ \E a \in AllocationsOf(sahod_allocations, EndedInstance.id) :
                  /\ a.envelope_id = e
                  /\ Remaining(a) > 0
                  /\ sahod_envelopes[e].cookie_jar = start + Remaining(a)

(***************************************************************************)
(* SpecCarry: the ended period's remainders when the next period is opened *)
(* and filled; the cookie jars start empty, the rollover runs by the       *)
(* lookup alone and nothing is withdrawn.                                  *)
(***************************************************************************)
NextCarry ==
    \/ GetCurrentInstance
    \/ FillCurrent

SpecCarry == InitBestEffort /\ [][NextCarry]_vars

\* rollover_amount of the rows of envelope e in the period that holds today
CarriedIn(e) ==
    {a.rollover_amount :
        a \in {b \in sahod_allocations :
                  /\ b.envelope_id = e
                  /\ \E i \in ContainingToday(sahod_pay_cycle_instances) :
                        i.id = b.pay_cycle_instance_id}}

\* C30: for a rollover envelope, what fill_allocations carries into the next
\* period's rollover_amount and what the rollover adds to the cookie_jar for
\* the same ended period are together at most max(0, allocated + rollover -
\* spent): the remainder is handed on once.
C30_RemainderHandedOnOnce ==
    \A e \in EnvelopeIds :
        sahod_envelopes[e].is_rollover =>
            \A a \in AllocationsOf(sahod_allocations, EndedInstance.id) :
                a.envelope_id = e =>
                    \A carried \in CarriedIn(e) \cup {0} :
                        sahod_envelopes[e].cookie_jar + carried
                            <= IF Remaining(a) > 0 THEN Remaining(a) ELSE 0

=============================================================================
